---------------------------- MODULE Spec2Model ----------------------------
(***************************************************************************)
(* Model of the joblensai V3 agentic workflow (src/agents/v3_graph.py):    *)
(* the LangGraph state machine decide_titles -> phase1_agent <->           *)
(* (phase1_tools -> score_batch) -> resume_modifier_agent ->               *)
(* project_proposer -> future_scores -> relevance_summary -> END, and the  *)
(* rate-limited generation gateway _rate_limited_gemini that the nodes     *)
(* call, run by several request threads of one process (src/api.py).      *)
(*                                                                         *)
(* Two specifications share the variables:                                 *)
(*   Spec         one run of the workflow graph; the generation service,   *)
(*                the search service and the model's tool calls are the    *)
(*                environment;                                             *)
(*   SpecGateway  the gateway and the agent node's direct call, executed   *)
(*                by concurrent threads against a clock, statement by      *)
(*                statement.                                               *)
(***************************************************************************)
EXTENDS Integers, Sequences, FiniteSets, TLC

VARIABLES
    \* ---- V3State (src/agents/state.py) of the run under Spec
    pc,                     \* node the graph executes next
    job_type,
    suggested_titles,
    qualifying_jobs,
    seen_urls,
    current_batch,
    phase1_last_tool_call,  \* <<>> is None, <<[name, job_title, page]>> a call
    phase1_tried_pairs,
    phase1_rounds,
    \* ---- environment and observation of the run
    oddLeft,                \* non-nominal service responses still allowed
    agentVisits,            \* number of executions of phase1_agent_node
    agentOutcome,           \* how the last phase1_agent_node execution ended
    lastRequest,            \* the model's answer to the last tool-schema call
    searchCalls,            \* number of search-service calls made
    reportCalls,            \* number of update_relevant_jobs calls made
    gatewayCalls,           \* per node: _rate_limited_gemini invocations made
    lastTexts,              \* node and response texts of the last enrichment pass
    \* ---- process-wide gateway state and its threads under SpecGateway
    now,                    \* time.time(), in seconds
    last_call_ts,           \* _last_call_ts
    gpc,                    \* per thread: statement it executes next
    gkind,                  \* per thread: "gateway" or "direct" (agent node)
    attempt,                \* per thread: loop variable of the gateway
    wake,                   \* per thread: end of the current time.sleep
    outcomes,               \* per thread: outcome of each outbound call made
    ret,                    \* per thread: <<>> or <<returned text>>
    raised,                 \* per thread: an exception left the invocation
    callStarts,             \* the two most recent outbound calls, in order
    \* ---- src/api.py: what _run_workflow leaves in jobs_store for the run
    results,                \* [status, jobs]
    \* ---- the helper functions applied on their own under SpecHelpers
    fnCall                  \* [fn, ...arguments, result] of the last application

wfVars == <<pc, job_type, suggested_titles, qualifying_jobs, seen_urls,
            current_batch, phase1_last_tool_call, phase1_tried_pairs,
            phase1_rounds, oddLeft, agentVisits, agentOutcome, lastRequest,
            searchCalls, reportCalls, gatewayCalls, lastTexts>>
gwVars == <<now, last_call_ts, gpc, gkind, attempt, wake, outcomes, ret,
            raised, callStarts>>
apiVars == <<results, fnCall>>
vars == <<wfVars, gwVars, apiVars>>

-----------------------------------------------------------------------------
(* Program constants *)
V3_SCORE_THRESHOLD == 85
V3_TARGET_QUALIFYING_JOBS == 10
V3_PHASE1_MAX_ROUNDS == 15
COOLDOWN_SECONDS == 4
BATCH_SIZE == 3
RELEVANCE_BATCH_SIZE == 6
max_page_per_title == 5
max_attempts == 3
max_jobs == 10
DefaultScore == 70

(* Bounds of the model *)
MaxOdd == 1        \* non-nominal service responses per run
MaxVisits == 18    \* executions of phase1_agent_node explored
MaxTime == 20      \* last second of the clock explored under SpecGateway

-----------------------------------------------------------------------------
(* Generic helpers *)
Range(s) == {s[i] : i \in 1..Len(s)}
Min(a, b) == IF a < b THEN a ELSE b
Max(a, b) == IF a > b THEN a ELSE b
Take(s, n) == SubSeq(s, 1, Min(n, Len(s)))

\* str.strip() on the strings the model uses
Strip(s) ==
    CASE s = " " -> ""
      [] s = " Data Analyst " -> "Data Analyst"
      [] OTHER -> s

\* Python truthiness of a string
Truthy(s) == s # ""

\* [str(x).strip() for x in ...]
StripAll(s) == [i \in 1..Len(s) |-> Strip(s[i])]


-----------------------------------------------------------------------------
(* Values exchanged with the services.  A JSON / argument value is a record *)
(* [k, s, n]: k its kind, s its text when a string, n its number when an    *)
(* integer.                                                                 *)
StrVal(x) == [k |-> "str", s |-> x, n |-> 0]
IntVal(x) == [k |-> "int", s |-> "", n |-> x]
NullVal == [k |-> "null", s |-> "", n |-> 0]
AbsentVal == [k |-> "absent", s |-> "", n |-> 0]

\* Python truthiness of a value (None, "", 0 and a missing key are falsy)
ValTruthy(v) ==
    \/ v.k = "str" /\ v.s # ""
    \/ v.k = "int" /\ v.n # 0

\* int(v): ok is FALSE where Python raises TypeError / ValueError
IntOf(v) ==
    IF v.k = "int" THEN [ok |-> TRUE, n |-> v.n] ELSE [ok |-> FALSE, n |-> 0]

\* str(v) of a truthy value
StrOf(v) == IF v.k = "str" THEN v.s ELSE "<number>"

-----------------------------------------------------------------------------
(* The search service behind scrape_jobs: what one page of a title holds.  *)
(* A listing is [url |-> n]; url 0 is the empty / missing URL.             *)
TitleNo(t) ==
    CASE t = "Software Engineer" -> 1
      [] t = "Software Engineer Intern" -> 2
      [] t = "Data Analyst" -> 3
      [] t = "Data Engineer" -> 4
      [] t = "ML Engineer" -> 5
      [] t = "Product Manager" -> 6
      [] OTHER -> 7

Listing(u) == [url |-> u]

\* variant of Catalog: the page is not cut at max_jobs listings
Catalog_uncut(t, p) ==
    LET b == 100 * TitleNo(t) IN
    IF TitleNo(t) = 6 /\ p \in 0..1
    THEN [k \in 1..(max_jobs + 1) |-> Listing(b + 20 * p + k)]
    ELSE <<Listing(b + p + 1)>>

Catalog(t, p) ==
    LET b == 100 * TitleNo(t) IN
    CASE p < 0 -> <<>>
      [] TitleNo(t) = 1 /\ p <= 5 -> <<Listing(b + p + 1)>>
      [] TitleNo(t) = 2 /\ p = 0 -> <<Listing(b + 1)>>
      [] TitleNo(t) = 3 /\ p = 0 -> <<Listing(b + 1), Listing(b + 1), Listing(0)>>
      [] TitleNo(t) = 3 /\ p \in 1..5 ->
            <<Listing(b + 10 * p + 1), Listing(b + 10 * (p - 1) + 1), Listing(0)>>
      [] TitleNo(t) \in {4, 5} /\ p <= 7 -> <<Listing(b + p + 1)>>
      [] TitleNo(t) = 6 /\ p <= 1 -> [k \in 1..max_jobs |-> Listing(b + 10 * p + k)]
      [] OTHER -> <<>>

\* the relevance the scoring model sees in a listing
ScoreOf(u) ==
    CASE u \div 100 = 1 -> 70
      [] u \div 100 = 2 -> 80
      [] u \div 100 = 3 -> IF ((u % 100) \div 10) % 2 = 0 THEN 90 ELSE 60
      [] u \div 100 = 4 -> 60
      [] u \div 100 = 5 -> 84
      [] u \div 100 = 6 -> IF u = 610 THEN 80 ELSE 85 + 5 * (u % 4)
      [] OTHER -> 50

-----------------------------------------------------------------------------
(* Observation of the gateway invocations the nodes make *)
GatewayNodes == {"decide_titles", "score_batch", "resume_modifier_agent",
                 "project_proposer", "future_scores", "relevance_summary"}

NoCalls == [n \in GatewayNodes |-> 0]

\* the counters after node has called _rate_limited_gemini k more times
Invoked(node, k) == [gatewayCalls EXCEPT ![node] = @ + k]

NoTexts == [node |-> "none", texts |-> <<>>]

\* range(0, n, size): the batch starts an enrichment loop iterates over
batch_starts(n, size) == {s \in 0..(n - 1) : s % size = 0}

-----------------------------------------------------------------------------
(* decide_titles_node *)
JobTypes == {"full_time", "internship", "both"}

\* texts the generation service may answer the title prompt with:
\* kind "empty" is "", "garbage" has no JSON array, "array" is a JSON array
\* of strings
TitleResponses ==
    { [kind |-> "empty", items |-> <<>>],
      [kind |-> "garbage", items |-> <<>>],
      [kind |-> "array", items |-> <<" ">>],
      [kind |-> "array", items |-> <<" Data Analyst ">>],
      [kind |-> "array", items |-> <<"Product Manager", "Data Analyst">>],
      [kind |-> "array", items |-> <<"Data Analyst", "", "Data Engineer",
                                     "ML Engineer", "Product Manager">>] }

\* _extract_json_string_array: [str(x).strip() for x in parsed if x][:5]
extract_json_string_array(text) ==
    IF text.kind # "array" THEN <<>>
    ELSE Take(StripAll(SelectSeq(text.items, Truthy)), 5)

max_titles(jt) == IF jt \in {"full_time", "internship"} THEN 3 ELSE 4

decide_titles(jt, text) ==
    LET t1 == extract_json_string_array(text)
        \* an array of strings holds no {"title": ..} / {"name": ..} mapping;
        \* the third parse repeats the first one, cut at max_titles
        t2 == IF t1 = <<>> /\ text.kind = "array"
              THEN Take(StripAll(SelectSeq(text.items, Truthy)), max_titles(jt))
              ELSE t1
        t3 == IF t2 = <<>>
              THEN IF jt = "full_time" THEN <<"Software Engineer">>
                   ELSE <<"Software Engineer Intern">>
              ELSE t2
    IN  Take(SelectSeq(t3, Truthy), max_titles(jt))

DecideTitles ==
    /\ pc = "decide_titles"
    /\ \E text \in TitleResponses :
          suggested_titles' = decide_titles(job_type, text)
    /\ gatewayCalls' = Invoked("decide_titles", 1)
    /\ pc' = "phase1_agent"
    /\ UNCHANGED <<job_type, qualifying_jobs, seen_urls, current_batch,
                   phase1_last_tool_call, phase1_tried_pairs, phase1_rounds,
                   oddLeft, agentVisits, agentOutcome, lastRequest, searchCalls, reportCalls, lastTexts>>
    /\ UNCHANGED <<gwVars, apiVars>>

-----------------------------------------------------------------------------
(* Discovery loop helpers *)

\* _tried_pairs_set
tried_pairs_set(tried) ==
    { <<Strip(tried[i].title), tried[i].page>> :
         i \in {j \in 1..Len(tried) : Strip(tried[j].title) # ""} }

\* _get_next_title_page: <<>> is None, otherwise <<title, page>>
RECURSIVE NextPage(_, _, _)
NextPage(title, page, tried) ==
    IF page > max_page_per_title THEN <<>>
    ELSE IF <<title, page>> \notin tried THEN <<title, page>>
    ELSE NextPage(title, page + 1, tried)

RECURSIVE NextTitle(_, _, _)
NextTitle(titles, i, tried) ==
    IF i > Len(titles) THEN <<>>
    ELSE LET title == Strip(titles[i]) IN
         IF title = "" THEN NextTitle(titles, i + 1, tried)
         ELSE LET r == NextPage(title, 0, tried) IN
              IF r # <<>> THEN r ELSE NextTitle(titles, i + 1, tried)

get_next_title_page(suggested, tried_pairs) ==
    LET titles == IF suggested = <<>> THEN <<"Software Engineer">> ELSE suggested
    IN  NextTitle(titles, 1, tried_pairs_set(tried_pairs))

\* variant of phase1_route: the loop goes on while the rounds do not exceed
\* the cap
phase1_route_cap_inclusive(qualifying, rounds, tool_call) ==
    IF Len(qualifying) >= V3_TARGET_QUALIFYING_JOBS THEN "resume_modifier_agent"
    ELSE IF rounds > V3_PHASE1_MAX_ROUNDS THEN "resume_modifier_agent"
    ELSE IF tool_call # <<>> THEN "phase1_tools"
    ELSE "phase1_agent"

\* variant of phase1_route: the round cap is not tested
phase1_route_no_round_cap(qualifying, rounds, tool_call) ==
    IF Len(qualifying) >= V3_TARGET_QUALIFYING_JOBS THEN "resume_modifier_agent"
    ELSE IF tool_call # <<>> THEN "phase1_tools"
    ELSE "phase1_agent"

\* phase1_route, evaluated on the state the node's update has been merged into
phase1_route(qualifying, rounds, tool_call) ==
    IF Len(qualifying) >= V3_TARGET_QUALIFYING_JOBS THEN "resume_modifier_agent"
    ELSE IF rounds >= V3_PHASE1_MAX_ROUNDS THEN "resume_modifier_agent"
    ELSE IF tool_call # <<>> THEN "phase1_tools"
    ELSE "phase1_agent"


-----------------------------------------------------------------------------
(* phase1_agent_node *)

\* What the generation service answers the tool-schema call with:
\*   kind "error"   the call raises (transport failure)
\*   kind "nocall"  a response without a scrape_linkedin function call
\*   kind "call"    a function call whose args have the given shape
\*                  ("mapping": dict or Struct, "none": args is None,
\*                  "other": an object that is no mapping)
Request(kind, shape, title, page) ==
    [kind |-> kind, shape |-> shape, job_title |-> title, page |-> page]

NoRequest == Request("none", "none", AbsentVal, AbsentVal)

Call(title, page) == Request("call", "mapping", title, page)

\* the answer of a model that follows the prompt: the next untried pair
NominalRequests(suggested, tried) ==
    LET np == get_next_title_page(suggested, tried) IN
    IF np = <<>> THEN {} ELSE { Call(StrVal(np[1]), IntVal(np[2])) }

\* the other answers explored
OddRequests(suggested, tried) ==
    LET last == IF suggested = <<>> THEN "Software Engineer"
                ELSE suggested[Len(suggested)]
    IN  { Request("error", "none", AbsentVal, AbsentVal),
          Request("nocall", "none", AbsentVal, AbsentVal),
          Request("call", "none", AbsentVal, AbsentVal),
          Request("call", "other", StrVal(last), IntVal(2)),
          Call(AbsentVal, StrVal("two")),
          Call(StrVal("Astronaut"), IntVal(3)),
          Call(StrVal(" "), IntVal(0)),
          Call(StrVal(last), IntVal(7)),
          Call(StrVal(last), NullVal),
          Call(StrVal("Product Manager"), IntVal(0)) }
        \cup { Call(StrVal(tried[i].title), IntVal(tried[i].page)) :
                  i \in {j \in 1..Len(tried) : j = 1 \/ j = Len(tried)} }

\* variant of normalize_function_call_args: reads the fields of any shape
normalize_function_call_args_any_shape(req) ==
    [job_title |-> req.job_title, page |-> req.page]

\* _normalize_function_call_args followed by the dict(raw_args) fallback:
\* the mapping the node reads job_title and page from
normalize_function_call_args(req) ==
    IF req.shape = "mapping"
    THEN [job_title |-> req.job_title, page |-> req.page]
    ELSE [job_title |-> AbsentVal, page |-> AbsentVal]

\* int(args.get("page", 0)) with the except branch
page_arg(v) ==
    IF v.k = "absent" THEN 0
    ELSE IF IntOf(v).ok THEN IntOf(v).n ELSE 0

\* variant of chosen_pair: the already-tried test is left out
chosen_pair_no_override(req, suggested, tried_pairs) ==
    LET first_title == IF suggested = <<>> THEN "Software Engineer"
                       ELSE suggested[1]
        title == IF req.shape = "mapping" /\ ValTruthy(req.job_title)
                 THEN Strip(StrOf(req.job_title)) ELSE first_title
    IN  <<IF suggested # <<>> /\ title \notin Range(suggested) THEN first_title ELSE title,
          IF req.shape = "mapping" /\ req.page.k = "int" THEN req.page.n ELSE 0>>

\* lines 431-447: the (job_title, page) the node puts in the tool call
chosen_pair(req, suggested, tried_pairs) ==
    LET args == normalize_function_call_args(req)
        first_title == IF suggested = <<>> THEN "Software Engineer"
                       ELSE suggested[1]
        raw_title == IF ValTruthy(args.job_title) THEN StrOf(args.job_title)
                     ELSE first_title
        stripped == Strip(raw_title)
        job_title == IF suggested # <<>> /\ stripped \notin Range(suggested)
                     THEN first_title ELSE stripped
        page == page_arg(args.page)
    IN  IF <<job_title, page>> \in tried_pairs_set(tried_pairs)
        THEN get_next_title_page(suggested, tried_pairs)
        ELSE <<job_title, page>>

ToolCall(pair) ==
    <<[name |-> "scrape_linkedin", job_title |-> pair[1], page |-> pair[2]]>>

\* the node's update of phase1_last_tool_call, and how the node ended
phase1_agent(req, suggested, qualifying, tried_pairs) ==
    IF Len(qualifying) >= V3_TARGET_QUALIFYING_JOBS
    THEN [tool_call |-> <<>>, outcome |-> "target"]
    ELSE IF get_next_title_page(suggested, tried_pairs) = <<>>
    THEN [tool_call |-> <<>>, outcome |-> "exhausted"]
    ELSE IF req.kind = "error"
    THEN [tool_call |-> <<>>, outcome |-> "error"]
    ELSE IF req.kind = "nocall"
    THEN [tool_call |-> <<>>, outcome |-> "nocall"]
    ELSE [tool_call |-> ToolCall(chosen_pair(req, suggested, tried_pairs)),
          outcome |-> "call"]

\* TRUE when the node reaches the generation call
AgentAsksModel ==
    /\ Len(qualifying_jobs) < V3_TARGET_QUALIFYING_JOBS
    /\ get_next_title_page(suggested_titles, phase1_tried_pairs) # <<>>

AgentStep(req, odd) ==
    LET r == phase1_agent(req, suggested_titles, qualifying_jobs,
                          phase1_tried_pairs)
    IN  /\ phase1_last_tool_call' = r.tool_call
        /\ agentOutcome' = r.outcome
        /\ lastRequest' = req
        /\ oddLeft' = oddLeft - odd
        /\ agentVisits' = agentVisits + 1
        /\ pc' = phase1_route(qualifying_jobs, phase1_rounds, r.tool_call)
        /\ UNCHANGED <<job_type, suggested_titles, qualifying_jobs, seen_urls,
                       current_batch, phase1_tried_pairs, phase1_rounds,
                       searchCalls, reportCalls, gatewayCalls, lastTexts>>
        /\ UNCHANGED <<gwVars, apiVars>>

Phase1Agent ==
    /\ pc = "phase1_agent"
    /\ agentVisits < MaxVisits
    /\ \/ /\ ~AgentAsksModel
          /\ AgentStep(NoRequest, 0)
       \/ /\ AgentAsksModel
          /\ \E req \in NominalRequests(suggested_titles, phase1_tried_pairs) :
                AgentStep(req, 0)
       \/ /\ AgentAsksModel
          /\ oddLeft > 0
          /\ \E req \in OddRequests(suggested_titles, phase1_tried_pairs) :
                AgentStep(req, 1)

-----------------------------------------------------------------------------
(* phase1_tool_node *)

\* the search service's answers to one scrape_jobs call: the page, or the
\* empty list scrape_jobs returns when the scraper raises
NominalPages(title, page) == { Catalog(title, page) }
\* variant of OddPages: a failed search still hands back the rows of the page
OddPages_rows_kept(title, page) == { Catalog(title, page) }

OddPages(title, page) == { <<>> }

\* variant of Dedup: the URL is not looked up in the seen URLs
RECURSIVE Dedup_no_seen_test(_, _, _)
Dedup_no_seen_test(batch, seen, fresh) ==
    IF batch = <<>> THEN [seen |-> seen, fresh |-> fresh]
    ELSE LET j == Head(batch) IN
         IF j.url # 0
         THEN Dedup_no_seen_test(Tail(batch), Append(seen, j.url), Append(fresh, j))
         ELSE Dedup_no_seen_test(Tail(batch), seen, fresh)

\* variant of Dedup: the seen URLs are replaced by those of the fresh batch
RECURSIVE Dedup_forgets(_, _, _)
Dedup_forgets(batch, seen, fresh) ==
    IF batch = <<>> THEN [seen |-> [i \in 1..Len(fresh) |-> fresh[i].url], fresh |-> fresh]
    ELSE LET j == Head(batch) IN
         IF j.url # 0 /\ j.url \notin Range(seen)
         THEN Dedup_forgets(Tail(batch), Append(seen, j.url), Append(fresh, j))
         ELSE Dedup_forgets(Tail(batch), seen, fresh)

\* variant of Dedup: the URL is not tested for being empty
RECURSIVE Dedup_empty_url_kept(_, _, _)
Dedup_empty_url_kept(batch, seen, fresh) ==
    IF batch = <<>> THEN [seen |-> seen, fresh |-> fresh]
    ELSE LET j == Head(batch) IN
         IF j.url \notin Range(seen)
         THEN Dedup_empty_url_kept(Tail(batch), Append(seen, j.url), Append(fresh, j))
         ELSE Dedup_empty_url_kept(Tail(batch), seen, fresh)

\* lines 465-472: dedup of one batch against the seen URLs, in order
RECURSIVE Dedup(_, _, _)
Dedup(batch, seen, fresh) ==
    IF batch = <<>> THEN [seen |-> seen, fresh |-> fresh]
    ELSE LET j == Head(batch) IN
         IF j.url # 0 /\ j.url \notin Range(seen)
         THEN Dedup(Tail(batch), Append(seen, j.url), Append(fresh, j))
         ELSE Dedup(Tail(batch), seen, fresh)

\* lines 455-464: the (job_title, page) the node searches for
tool_pair(tool, suggested) ==
    LET stripped == Strip(tool.job_title)
        job_title == IF stripped = ""
                        \/ (suggested # <<>> /\ stripped \notin Range(suggested))
                     THEN IF suggested = <<>> THEN "Software Engineer"
                          ELSE suggested[1]
                     ELSE stripped
    IN  <<job_title, tool.page>>

ToolStep(batch, odd) ==
    LET pair == tool_pair(phase1_last_tool_call[1], suggested_titles)
        d == Dedup(batch, seen_urls, <<>>)
    IN  /\ current_batch' = d.fresh
        /\ seen_urls' = d.seen
        /\ phase1_last_tool_call' = <<>>
        /\ phase1_tried_pairs' =
              Append(phase1_tried_pairs,
                     [title |-> pair[1], page |-> pair[2],
                      jobs_returned |-> Len(d.fresh), qualifying_added |-> -1])
        /\ searchCalls' = searchCalls + 1
        /\ oddLeft' = oddLeft - odd
        /\ pc' = "score_batch"
        /\ UNCHANGED <<job_type, suggested_titles, qualifying_jobs,
                       phase1_rounds, agentVisits, agentOutcome, lastRequest, reportCalls,
                       gatewayCalls, lastTexts>>
        /\ UNCHANGED <<gwVars, apiVars>>

Phase1Tools ==
    /\ pc = "phase1_tools"
    /\ phase1_last_tool_call # <<>>
    /\ LET pair == tool_pair(phase1_last_tool_call[1], suggested_titles) IN
       \/ \E batch \in NominalPages(pair[1], pair[2]) : ToolStep(batch, 0)
       \/ /\ oddLeft > 0
          /\ \E batch \in OddPages(pair[1], pair[2]) : ToolStep(batch, 1)


-----------------------------------------------------------------------------
(* Texts returned by the gateway to the scoring and enrichment nodes.      *)
(* kind "empty" is the empty string (also what the gateway returns when    *)
(* every attempt failed); kind "array" is a JSON array of mappings, each   *)
(* read with item.get(..); kind "blocks" is free text cut by "## JOB i"    *)
(* markers, parts[i] the chunk after marker i ("" when 20 characters or    *)
(* less).                                                                  *)
EmptyText == [kind |-> "empty", items |-> <<>>]
\* a short text with no JSON array and no job marker in it
GarbageText == [kind |-> "garbage", items |-> <<>>]
ArrayText(items) == [kind |-> "array", items |-> items]
BlocksText(parts) == [kind |-> "blocks", items |-> parts]

Clamp(x) == Max(0, Min(100, x))

-----------------------------------------------------------------------------
(* score_batch_node *)
ScoreItem(idx, score) == [idx |-> idx, score |-> score]

NominalScoreTexts(batch) ==
    { ArrayText([i \in 1..Len(batch) |->
                    ScoreItem(IntVal(i - 1), IntVal(ScoreOf(batch[i].url)))]) }

OddScoreTexts(batch) ==
    { EmptyText,
      \* scores outside 0..100
      ArrayText([i \in 1..Len(batch) |->
                    ScoreItem(IntVal(i - 1), IntVal(ScoreOf(batch[i].url) + 20))]),
      \* only the first job is scored, the score given twice
      ArrayText(<<ScoreItem(IntVal(0), IntVal(95)), ScoreItem(IntVal(0), IntVal(99))>>),
      \* idx is not a number / is null / score missing or null
      ArrayText(<<ScoreItem(StrVal("first"), IntVal(95)),
                  ScoreItem(NullVal, IntVal(95)),
                  ScoreItem(IntVal(0), NullVal)>>),
      ArrayText(<<ScoreItem(IntVal(0), AbsentVal)>>) }

\* lines 512-521: score_map after reading the first k items; a function
\* from batch index (0-based) to <<>> (no entry) or <<score>>
RECURSIVE score_map(_, _, _)
score_map(items, k, n) ==
    IF k = 0 THEN [i \in 0..(n - 1) |-> <<>>]
    ELSE LET m == score_map(items, k - 1, n)
             s == items[k]
             sc == IF s.score.k = "absent" THEN IntVal(0) ELSE s.score
         IN  IF s.idx.k \in {"absent", "null"} THEN m
             ELSE IF ~IntOf(s.idx).ok \/ ~IntOf(sc).ok THEN m
             ELSE IF IntOf(s.idx).n \in DOMAIN m
                  THEN [m EXCEPT ![IntOf(s.idx).n] = <<Clamp(IntOf(sc).n)>>]
                  ELSE m

batch_scores(text, batch) ==
    LET items == IF text.kind = "array" THEN text.items ELSE <<>>
        m == score_map(items, Len(items), Len(batch))
    IN  [i \in 1..Len(batch) |->
            IF m[i - 1] = <<>> THEN DefaultScore ELSE m[i - 1][1]]

Job(url, score) ==
    [url |-> url, score |-> score, resume_suggestions |-> <<>>,
     project_suggestions |-> <<>>, future_score |-> <<>>,
     improvement_potential |-> <<>>, brief_relevance_summary |-> <<>>]

\* variant of qualifies: compares with the neutral default score
qualifies_from_default(sc) == sc >= DefaultScore

\* line 527
qualifies(sc) == sc >= V3_SCORE_THRESHOLD

\* lines 522-529: the batch items appended to the qualifying collection
RECURSIVE scored_qualifying(_, _, _)
scored_qualifying(batch, scores, i) ==
    IF i > Len(batch) THEN <<>>
    ELSE (IF qualifies(scores[i]) THEN <<Job(batch[i].url, scores[i])>> ELSE <<>>)
         \o scored_qualifying(batch, scores, i + 1)

\* variant of append_qualifying: the newly qualified jobs are put in front
append_qualifying_in_front(qualifying, added) == added \o qualifying

\* lines 522 and 528: qualifying = list(state["qualifying_jobs"]), then
\* qualifying.append(j) for each item that qualifies
append_qualifying(qualifying, added) == qualifying \o added

\* variant of score_invocations: one gateway invocation per batch item
score_invocations_per_item(batch) == Len(batch)

\* line 511: the gateway is invoked once, with all the items of the batch in
\* one prompt (lines 495-510); line 492 returns before it on an empty batch
score_invocations(batch) == IF batch = <<>> THEN 0 ELSE 1

ScoreStep(text, odd) ==
    LET scores == batch_scores(text, current_batch)
        added == scored_qualifying(current_batch, scores, 1)
        last == Len(phase1_tried_pairs)
    IN  /\ qualifying_jobs' = append_qualifying(qualifying_jobs, added)
        /\ current_batch' = <<>>
        /\ phase1_rounds' = phase1_rounds + 1
        /\ phase1_tried_pairs' =
              IF last = 0 THEN phase1_tried_pairs
              ELSE [phase1_tried_pairs EXCEPT ![last].qualifying_added = Len(added)]
        /\ oddLeft' = oddLeft - odd
        /\ gatewayCalls' = Invoked("score_batch", score_invocations(current_batch))
        /\ pc' = "phase1_agent"
        /\ UNCHANGED <<job_type, suggested_titles, seen_urls,
                       phase1_last_tool_call, agentVisits, agentOutcome,
                       lastRequest, searchCalls, reportCalls, lastTexts>>
        /\ UNCHANGED <<gwVars, apiVars>>

ScoreBatch ==
    /\ pc = "score_batch"
    /\ \/ \* line 492: nothing to score
          /\ current_batch = <<>>
          /\ pc' = "phase1_agent"
          /\ UNCHANGED <<job_type, suggested_titles, qualifying_jobs, seen_urls,
                         current_batch, phase1_last_tool_call,
                         phase1_tried_pairs, phase1_rounds, oddLeft,
                         agentVisits, agentOutcome, lastRequest, searchCalls, reportCalls,
                         gatewayCalls, lastTexts>>
          /\ UNCHANGED <<gwVars, apiVars>>
       \/ /\ current_batch # <<>>
          /\ \E text \in NominalScoreTexts(current_batch) : ScoreStep(text, 0)
       \/ /\ current_batch # <<>>
          /\ oddLeft > 0
          /\ \E text \in OddScoreTexts(current_batch) : ScoreStep(text, 1)


-----------------------------------------------------------------------------
(* Enrichment passes.  jobs[a:b] slices share the job dicts with           *)
(* qualifying_jobs, so what a pass writes into a batch is written into the  *)
(* collection.                                                             *)
NumBatches(n, size) == (n + size - 1) \div size
BatchOf(i, size) == ((i - 1) \div size) + 1
PosIn(i, size) == (i - 1) % size
BatchLen(b, n, size) == Min(size, n - (b - 1) * size)
BatchJobs(jobs, b, size) ==
    SubSeq(jobs, (b - 1) * size + 1, Min(b * size, Len(jobs)))

Item(idx, a, b) == [idx |-> idx, a |-> a, b |-> b]

\* One response item as the loop body executes it:
\*   act "raise" the body raises ValueError / TypeError / AttributeError,
\*   act "skip"  the guard  idx is not None and 0 <= int(idx) < n  is false,
\*   act "set"   the job at idx is written with val
Step(act, idx, val) == [act |-> act, idx |-> idx, val |-> val]

idx_step(item, n, val) ==
    IF item.idx.k \in {"absent", "null"} THEN Step("skip", 0, val)
    ELSE IF ~IntOf(item.idx).ok THEN Step("raise", 0, val)
    ELSE IF IntOf(item.idx).n \in 0..(n - 1) THEN Step("set", IntOf(item.idx).n, val)
    ELSE Step("skip", 0, val)

\* the writes of a loop over the first k steps, up to the first raise:
\* m maps a position to <<>> (not written) or <<val>>
RECURSIVE run_steps(_, _, _)
run_steps(steps, k, n) ==
    IF k = 0 THEN [m |-> [i \in 0..(n - 1) |-> <<>>], failed |-> FALSE]
    ELSE LET r == run_steps(steps, k - 1, n)
             s == steps[k]
         IN  IF r.failed THEN r
             ELSE IF s.act = "raise" THEN [r EXCEPT !.failed = TRUE]
             ELSE IF s.act = "set" THEN [r EXCEPT !.m[s.idx] = <<s.val>>]
             ELSE r

NoWrites(n) == [m |-> [i \in 0..(n - 1) |-> <<>>], failed |-> FALSE]

\* ---- resume_modifier_agent_node
Placeholder == "No suggestions generated."

NominalResumeText(n) == BlocksText([i \in 1..n |-> "Change X to Y because Z"])
OddResumeTexts(n) ==
    { EmptyText, GarbageText }
    \cup (IF n >= 2
          THEN { BlocksText([i \in 1..n |-> IF i = 1 THEN "" ELSE "Change X to Y because Z"]) }
          ELSE {})

\* _split_batch_suggestions on the texts above: the chunk after each marker;
\* a text without markers is given whole to a batch of one job (l.662-664),
\* and its chunks of 20 characters or less are dropped otherwise (l.670-672)
split_batch_suggestions(text, count) ==
    [i \in 1..count |->
        IF text.kind = "blocks" /\ i <= Len(text.items) THEN text.items[i]
        ELSE IF text.kind = "garbage" /\ count = 1 THEN "sorry, no"
        ELSE ""]

\* variant of resume_batch: no placeholder is substituted
resume_batch_no_fallback(text, count) ==
    [i \in 1..count |-> Strip(split_batch_suggestions(text, count)[i])]

resume_batch(text, count) ==
    IF text.kind = "empty" THEN [i \in 1..count |-> Placeholder]
    ELSE LET parts == split_batch_suggestions(text, count) IN
         [i \in 1..count |-> IF Strip(parts[i]) # "" THEN Strip(parts[i]) ELSE Placeholder]

resume_modifier_agent(jobs, texts) ==
    [i \in 1..Len(jobs) |->
        LET b == BatchOf(i, BATCH_SIZE) IN
        [jobs[i] EXCEPT !.resume_suggestions =
            <<resume_batch(texts[b], BatchLen(b, Len(jobs), BATCH_SIZE))[PosIn(i, BATCH_SIZE) + 1]>>]]

\* ---- project_proposer_node
NoProjects == "No project suggestions generated."

NominalProjectText(n) ==
    ArrayText([i \in 1..n |-> Item(IntVal(i - 1), StrVal("[projects]"), NullVal)])
OddProjectTexts(n) ==
    { EmptyText, GarbageText,
      ArrayText(<<Item(IntVal(0), StrVal("[projects]"), NullVal),
                  Item(StrVal("one"), StrVal("[projects]"), NullVal),
                  Item(IntVal(n - 1), StrVal("[late]"), NullVal)>>),
      ArrayText(<<Item(IntVal(n), StrVal("[stray]"), NullVal),
                  Item(NullVal, StrVal("[stray]"), NullVal)>>) }

project_batch(text, n) ==
    IF text.kind # "array" THEN NoWrites(n)
    ELSE LET steps == [k \in 1..Len(text.items) |->
                          idx_step(text.items[k], n, text.items[k].a.s)]
         IN  run_steps(steps, Len(steps), n)

\* variant of project_proposer: idx addresses the whole collection, not the
\* batch
project_proposer_whole_list(jobs, texts) ==
    [i \in 1..Len(jobs) |->
        LET ws == { b \in DOMAIN texts :
                       project_batch(texts[b], Len(jobs)).m[i - 1] # <<>> }
        IN  [jobs[i] EXCEPT !.project_suggestions =
                IF ws = {} THEN <<NoProjects>>
                ELSE project_batch(texts[CHOOSE b \in ws : \A c \in ws : c <= b],
                                   Len(jobs)).m[i - 1]]]

project_proposer(jobs, texts) ==
    [i \in 1..Len(jobs) |->
        LET b == BatchOf(i, BATCH_SIZE)
            w == project_batch(texts[b], BatchLen(b, Len(jobs), BATCH_SIZE)).m[PosIn(i, BATCH_SIZE)]
        IN  [jobs[i] EXCEPT !.project_suggestions =
                IF w # <<>> THEN w
                ELSE IF jobs[i].project_suggestions = <<>> THEN <<NoProjects>>
                ELSE jobs[i].project_suggestions]]

\* ---- future_scores_node
NominalFutureText(jobs) ==
    ArrayText([i \in 1..Len(jobs) |->
                  Item(IntVal(i - 1), IntVal(Min(100, jobs[i].score + 5)), NullVal)])
OddFutureTexts(jobs) ==
    { EmptyText,
      ArrayText(<<Item(IntVal(0), IntVal(150), NullVal)>>),
      ArrayText(<<Item(IntVal(0), AbsentVal, NullVal)>>),
      ArrayText(<<Item(IntVal(0), IntVal(99), NullVal),
                  Item(StrVal("one"), IntVal(99), NullVal)>>),
      ArrayText(<<Item(IntVal(0), NullVal, NullVal)>>) }

future_step(item, n) ==
    LET fs == IF item.a.k = "absent" THEN IntVal(0) ELSE item.a
        st == idx_step(item, n, Clamp(IntOf(fs).n))
    IN  IF st.act = "set" /\ ~IntOf(fs).ok THEN Step("raise", 0, 0) ELSE st

future_writes(text, n) ==
    IF text.kind # "array" THEN NoWrites(n)
    ELSE LET steps == [k \in 1..Len(text.items) |-> future_step(text.items[k], n)]
         IN  run_steps(steps, Len(steps), n)

\* variant of future_scores: improvement_potential is not recomputed when
\* future_score is set from the response
future_scores_stale_potential(jobs, text) ==
    LET w == future_writes(text, Len(jobs)) IN
    [i \in 1..Len(jobs) |->
        LET j == jobs[i]
            fs0 == Min(100, j.score + 10)
        IN  [j EXCEPT !.future_score = IF w.m[i - 1] = <<>> THEN <<fs0>> ELSE w.m[i - 1],
                      !.improvement_potential = <<fs0 - j.score>>]]

future_scores(jobs, text) ==
    LET w == future_writes(text, Len(jobs)) IN
    [i \in 1..Len(jobs) |->
        LET j == jobs[i]
            fs0 == IF j.future_score = <<>> THEN Min(100, j.score + 10)
                   ELSE j.future_score[1]
            ip0 == IF j.improvement_potential = <<>> THEN fs0 - j.score
                   ELSE j.improvement_potential[1]
        IN  IF w.m[i - 1] = <<>>
            THEN [j EXCEPT !.future_score = <<fs0>>, !.improvement_potential = <<ip0>>]
            ELSE [j EXCEPT !.future_score = w.m[i - 1],
                           !.improvement_potential = <<w.m[i - 1][1] - j.score>>]]

\* ---- relevance_summary_node
NominalRelevanceText(n) ==
    ArrayText([i \in 1..n |-> Item(IntVal(i - 1), StrVal("strong match"), StrVal("gap"))])
OddRelevanceTexts(n) ==
    { EmptyText,
      ArrayText(<<Item(IntVal(0), NullVal, StrVal(" "))>>),
      ArrayText(<<Item(IntVal(0), StrVal("strong match"), AbsentVal)>>),
      ArrayText(<<Item(IntVal(0), IntVal(5), StrVal("gap"))>>),
      ArrayText(<<Item(StrVal("one"), StrVal("strong match"), StrVal("gap"))>>) }

\* (item.get(key) or "").strip(): <<>> where it raises AttributeError
text_field(v) ==
    IF ~ValTruthy(v) THEN <<"">>
    ELSE IF v.k = "str" THEN <<Strip(v.s)>>
    ELSE <<>>

summary_of(working, not_working) ==
    IF working # "" /\ not_working # "" THEN "working: " \o working \o " / not working: " \o not_working
    ELSE IF working # "" THEN "working: " \o working
    ELSE IF not_working # "" THEN "not working: " \o not_working
    ELSE ""

relevance_step(item, n) ==
    LET w == text_field(item.a)
        nw == text_field(item.b)
    IN  IF w = <<>> \/ nw = <<>> THEN Step("raise", 0, "")
        ELSE idx_step(item, n, summary_of(w[1], nw[1]))

relevance_batch(text, n) ==
    IF text.kind # "array" THEN NoWrites(n)
    ELSE LET steps == [k \in 1..Len(text.items) |-> relevance_step(text.items[k], n)]
         IN  run_steps(steps, Len(steps), n)

\* the batches the loop reaches: all up to the first one that raises
relevance_failed(jobs, texts) ==
    { b \in 1..NumBatches(Len(jobs), RELEVANCE_BATCH_SIZE) :
         relevance_batch(texts[b], BatchLen(b, Len(jobs), RELEVANCE_BATCH_SIZE)).failed }

\* the loop calls the gateway once per batch it reaches; the batch that
\* raises is the last one reached
relevance_invocations(jobs, texts) ==
    LET failed == relevance_failed(jobs, texts) IN
    IF failed = {} THEN Cardinality(batch_starts(Len(jobs), RELEVANCE_BATCH_SIZE))
    ELSE CHOOSE b \in failed : \A f \in failed : b <= f

relevance_summary(jobs, texts) ==
    LET failed == relevance_failed(jobs, texts) IN
    [i \in 1..Len(jobs) |->
        LET b == BatchOf(i, RELEVANCE_BATCH_SIZE)
            w == relevance_batch(texts[b], BatchLen(b, Len(jobs), RELEVANCE_BATCH_SIZE)).m[PosIn(i, RELEVANCE_BATCH_SIZE)]
        IN  IF w = <<>> \/ (\E f \in failed : f < b) THEN jobs[i]
            ELSE [jobs[i] EXCEPT !.brief_relevance_summary = w]]


-----------------------------------------------------------------------------
(* Enrichment nodes.  At most one batch of a pass gets a non-nominal text. *)
stateKept == <<job_type, suggested_titles, seen_urls, current_batch,
               phase1_last_tool_call, phase1_tried_pairs, phase1_rounds,
               agentVisits, agentOutcome, lastRequest, searchCalls>>

WithOdd(nominal, ob, text) == [b \in DOMAIN nominal |-> IF b = ob THEN text ELSE nominal[b]]

ResumeNominal(jobs) ==
    [b \in 1..NumBatches(Len(jobs), BATCH_SIZE) |->
        NominalResumeText(BatchLen(b, Len(jobs), BATCH_SIZE))]

ResumeStep(texts, odd) ==
    /\ qualifying_jobs' = resume_modifier_agent(qualifying_jobs, texts)
    /\ oddLeft' = oddLeft - odd
    /\ pc' = "project_proposer"
    /\ gatewayCalls' = Invoked("resume_modifier_agent",
                               Cardinality(batch_starts(Len(qualifying_jobs), BATCH_SIZE)))
    /\ lastTexts' = [node |-> "resume_modifier_agent", texts |-> texts]
    /\ UNCHANGED <<stateKept, reportCalls>>
    /\ UNCHANGED <<gwVars, apiVars>>

ResumeModifierAgent ==
    /\ pc = "resume_modifier_agent"
    /\ \/ ResumeStep(ResumeNominal(qualifying_jobs), 0)
       \/ /\ oddLeft > 0
          /\ \E ob \in 1..NumBatches(Len(qualifying_jobs), BATCH_SIZE) :
             \E text \in OddResumeTexts(BatchLen(ob, Len(qualifying_jobs), BATCH_SIZE)) :
                ResumeStep(WithOdd(ResumeNominal(qualifying_jobs), ob, text), 1)

ProjectNominal(jobs) ==
    [b \in 1..NumBatches(Len(jobs), BATCH_SIZE) |->
        NominalProjectText(BatchLen(b, Len(jobs), BATCH_SIZE))]

ProjectStep(texts, odd) ==
    /\ qualifying_jobs' = project_proposer(qualifying_jobs, texts)
    /\ oddLeft' = oddLeft - odd
    /\ pc' = "future_scores"
    /\ gatewayCalls' = Invoked("project_proposer",
                               Cardinality(batch_starts(Len(qualifying_jobs), BATCH_SIZE)))
    /\ lastTexts' = [node |-> "project_proposer", texts |-> texts]
    /\ UNCHANGED <<stateKept, reportCalls>>
    /\ UNCHANGED <<gwVars, apiVars>>

ProjectProposer ==
    /\ pc = "project_proposer"
    /\ \/ ProjectStep(ProjectNominal(qualifying_jobs), 0)
       \/ /\ oddLeft > 0
          /\ \E ob \in 1..NumBatches(Len(qualifying_jobs), BATCH_SIZE) :
             \E text \in OddProjectTexts(BatchLen(ob, Len(qualifying_jobs), BATCH_SIZE)) :
                ProjectStep(WithOdd(ProjectNominal(qualifying_jobs), ob, text), 1)

\* the node raises inside the loop over the items, before the report is
\* written; otherwise update_relevant_jobs is called and the graph goes on
FutureStep(text, odd) ==
    LET failed == future_writes(text, Len(qualifying_jobs)).failed IN
    /\ qualifying_jobs' = future_scores(qualifying_jobs, text)
    /\ oddLeft' = oddLeft - odd
    /\ reportCalls' = IF failed THEN reportCalls ELSE reportCalls + 1
    /\ pc' = IF failed THEN "raised" ELSE "relevance_summary"
    /\ gatewayCalls' = Invoked("future_scores", 1)
    /\ lastTexts' = [node |-> "future_scores", texts |-> <<text>>]
    /\ UNCHANGED stateKept
    /\ UNCHANGED <<gwVars, apiVars>>

FutureScores ==
    /\ pc = "future_scores"
    /\ \/ FutureStep(NominalFutureText(qualifying_jobs), 0)
       \/ /\ oddLeft > 0
          /\ \E text \in OddFutureTexts(qualifying_jobs) : FutureStep(text, 1)

RelevanceNominal(jobs) ==
    [b \in 1..NumBatches(Len(jobs), RELEVANCE_BATCH_SIZE) |->
        NominalRelevanceText(BatchLen(b, Len(jobs), RELEVANCE_BATCH_SIZE))]

RelevanceStep(texts, odd) ==
    /\ qualifying_jobs' = relevance_summary(qualifying_jobs, texts)
    /\ oddLeft' = oddLeft - odd
    /\ pc' = IF relevance_failed(qualifying_jobs, texts) # {} THEN "raised" ELSE "END"
    /\ gatewayCalls' = Invoked("relevance_summary", relevance_invocations(qualifying_jobs, texts))
    /\ lastTexts' = [node |-> "relevance_summary", texts |-> texts]
    /\ UNCHANGED <<stateKept, reportCalls>>
    /\ UNCHANGED <<gwVars, apiVars>>

RelevanceSummary ==
    /\ pc = "relevance_summary"
    /\ \/ RelevanceStep(RelevanceNominal(qualifying_jobs), 0)
       \/ /\ oddLeft > 0
          /\ \E ob \in 1..NumBatches(Len(qualifying_jobs), RELEVANCE_BATCH_SIZE) :
             \E text \in OddRelevanceTexts(BatchLen(ob, Len(qualifying_jobs), RELEVANCE_BATCH_SIZE)) :
                RelevanceStep(WithOdd(RelevanceNominal(qualifying_jobs), ob, text), 1)

-----------------------------------------------------------------------------
(* src/api.py, _run_workflow after app.invoke: the list handed back *)

\* api.py l.398: the entry of a run is created with status "running"
NoResults == [status |-> "running", jobs |-> <<>>]

\* api.py l.321: the sort key x.get("improvement_potential", 0)
potential(job) ==
    IF job.improvement_potential = <<>> THEN 0 ELSE job.improvement_potential[1]

\* one step of list.sort(key=..., reverse=True): x goes behind every element
\* whose key is at least its own (the sort is stable)
insert_by_potential(s, x) ==
    LET k == Cardinality({i \in 1..Len(s) : potential(s[i]) >= potential(x)})
    IN  SubSeq(s, 1, k) \o <<x>> \o SubSeq(s, k + 1, Len(s))

\* variant of sort_by_potential: an element whose key is already present is
\* left out
RECURSIVE sort_by_potential_distinct_keys(_)
sort_by_potential_distinct_keys(jobs) ==
    IF jobs = <<>> THEN <<>>
    ELSE LET rest == sort_by_potential_distinct_keys(SubSeq(jobs, 1, Len(jobs) - 1))
             x == jobs[Len(jobs)]
         IN  IF \E i \in 1..Len(rest) : potential(rest[i]) = potential(x)
             THEN rest
             ELSE insert_by_potential(rest, x)

\* api.py l.320-321: qualifying_jobs.sort(key=improvement_potential, reverse=True)
RECURSIVE sort_by_potential(_)
sort_by_potential(jobs) ==
    IF jobs = <<>> THEN <<>>
    ELSE insert_by_potential(sort_by_potential(SubSeq(jobs, 1, Len(jobs) - 1)),
                             jobs[Len(jobs)])

\* api.py l.315-342: app.invoke has returned (the graph reached END) and the
\* sorted jobs are stored, one listing per job in that order, with status
\* "completed"; or a node raised and the except clause stores status "error"
RunWorkflowEnd ==
    /\ results.status = "running"
    /\ \/ /\ pc = "END"
          /\ results' = [status |-> "completed",
                         jobs |-> sort_by_potential(qualifying_jobs)]
       \/ /\ pc = "raised"
          /\ results' = [status |-> "error", jobs |-> <<>>]
    /\ UNCHANGED <<wfVars, gwVars, fnCall>>

-----------------------------------------------------------------------------
(* One run of the graph: _run_workflow's initial_state, build_v3_workflow *)
NoThreads == [t \in {} |-> 0]

\* no helper function has been applied
NoCall == [fn |-> "none"]

ApiIdle ==
    /\ results = NoResults
    /\ fnCall = NoCall

GatewayIdle ==
    /\ now = 0
    /\ last_call_ts = 0
    /\ gpc = NoThreads
    /\ gkind = NoThreads
    /\ attempt = NoThreads
    /\ wake = NoThreads
    /\ outcomes = NoThreads
    /\ ret = NoThreads
    /\ raised = NoThreads
    /\ callStarts = <<>>

Init ==
    /\ pc = "decide_titles"
    /\ job_type \in JobTypes
    /\ suggested_titles = <<>>
    /\ qualifying_jobs = <<>>
    /\ seen_urls = <<>>
    /\ current_batch = <<>>
    /\ phase1_last_tool_call = <<>>
    /\ phase1_tried_pairs = <<>>
    /\ phase1_rounds = 0
    /\ oddLeft = MaxOdd
    /\ agentVisits = 0
    /\ agentOutcome = "none"
    /\ lastRequest = NoRequest
    /\ searchCalls = 0
    /\ reportCalls = 0
    /\ gatewayCalls = NoCalls
    /\ lastTexts = NoTexts
    /\ GatewayIdle
    /\ ApiIdle

Next ==
    \/ DecideTitles
    \/ Phase1Agent
    \/ Phase1Tools
    \/ ScoreBatch
    \/ ResumeModifierAgent
    \/ ProjectProposer
    \/ FutureScores
    \/ RelevanceSummary
    \/ RunWorkflowEnd

Spec == Init /\ [][Next]_vars

-----------------------------------------------------------------------------
(* The generation gateway _rate_limited_gemini (v3_graph.py l.69-102) and   *)
(* the direct tool-schema call of phase1_agent_node (l.396-411), executed   *)
(* statement by statement by the request threads api.analyze starts.  The   *)
(* threads share the module global _last_call_ts, which no lock protects.   *)

\* api.py l.404-409: one threading.Thread per POST /api/analyze
Threads == {"t1", "t2"}

\* "gateway": _rate_limited_gemini; "direct": the inline call of the agent node
Kinds == {"gateway", "direct"}

\* what client.models.generate_content does: returns a response whose text is
\* a string or None, or raises with or without "429" in the message
Outcomes == {"text", "none", "429", "error"}

Failed(o) == o \in {"429", "error"}

\* l.94: return r.text or ""
TextOf(o) == IF o = "text" THEN "response" ELSE ""

\* src/config.py l.12-15 and l.21-33
PRIMARY_MODEL == "gemini-2.0-flash"
FALLBACK_MODEL == "gemini-2.0-flash-lite"
get_model_name(fallback) == IF fallback THEN FALLBACK_MODEL ELSE PRIMARY_MODEL

\* variant of use_fallback: the fallback tier from the second attempt on
use_fallback_from_second(att) == att >= 1

\* l.90: get_model_name(use_fallback=attempt >= 2)
use_fallback(att) == att >= 2

\* l.95-101: seconds the except branch sleeps after a failed call
backoff(att, o) ==
    IF o = "429" /\ att < max_attempts - 1
    THEN COOLDOWN_SECONDS * 2^att
    ELSE COOLDOWN_SECONDS

\* variant of reraises: the failure of the last attempt leaves the gateway
reraises_on_last(att, o) == att = max_attempts - 1

\* l.95-101: the except branch catches Exception and has no raise statement
reraises(att, o) == FALSE

\* the window of observation: the two most recent outbound calls
LastTwo(q) == IF Len(q) > 2 THEN SubSeq(q, Len(q) - 1, Len(q)) ELSE q

AllFailed(os) == \A i \in 1..Len(os) : Failed(os[i])

\* a request thread enters the gateway (l.71-78) or the agent node's call
\* section (l.396-398)
GBegin(t) ==
    /\ gpc[t] = "idle"
    /\ \E k \in Kinds : gkind' = [gkind EXCEPT ![t] = k]
    /\ gpc' = [gpc EXCEPT ![t] = "check"]
    /\ attempt' = [attempt EXCEPT ![t] = 0]
    /\ outcomes' = [outcomes EXCEPT ![t] = <<>>]
    /\ ret' = [ret EXCEPT ![t] = <<>>]
    /\ UNCHANGED <<wfVars, apiVars, now, last_call_ts, wake, raised, callStarts>>

\* variant of GCheck: the elapsed time is not compared with the cooldown
GCheck_no_sleep(t) ==
    /\ gpc[t] = "check"
    /\ gpc' = [gpc EXCEPT ![t] = "stamp"]
    /\ UNCHANGED <<wfVars, apiVars, now, last_call_ts, gkind, attempt, wake,
                   outcomes, ret, raised, callStarts>>

\* l.79-81 and l.399-401: elapsed = time.time() - _last_call_ts; the sleep is
\* decided on this one reading
GCheck(t) ==
    /\ gpc[t] = "check"
    /\ LET elapsed == now - last_call_ts
       IN  IF elapsed < COOLDOWN_SECONDS
           THEN /\ wake' = [wake EXCEPT ![t] = now + (COOLDOWN_SECONDS - elapsed)]
                /\ gpc' = [gpc EXCEPT ![t] = "cooldown"]
           ELSE /\ gpc' = [gpc EXCEPT ![t] = "stamp"]
                /\ UNCHANGED wake
    /\ UNCHANGED <<wfVars, apiVars, now, last_call_ts, gkind, attempt, outcomes, ret,
                   raised, callStarts>>

\* time.sleep returns (l.81, l.401)
GWake(t) ==
    /\ gpc[t] = "cooldown"
    /\ now >= wake[t]
    /\ gpc' = [gpc EXCEPT ![t] = "stamp"]
    /\ wake' = [wake EXCEPT ![t] = 0]
    /\ UNCHANGED <<wfVars, apiVars, now, last_call_ts, gkind, attempt, outcomes,
                   ret, raised, callStarts>>

\* l.88-89 and l.403-404: _last_call_ts = time.time(), and the outbound call
\* starts
GStamp(t) ==
    /\ gpc[t] = "stamp"
    /\ last_call_ts' = now
    /\ callStarts' = LastTwo(Append(callStarts,
                            [thread |-> t, at |-> now, kind |-> gkind[t],
                             fallback |-> gkind[t] = "gateway" /\ use_fallback(attempt[t])]))
    /\ gpc' = [gpc EXCEPT ![t] = "call"]
    /\ UNCHANGED <<wfVars, apiVars, now, gkind, attempt, wake, outcomes, ret, raised>>

\* the outbound call ends: l.89-101 in the gateway, l.404-411 in the agent
\* node (one attempt; an exception makes the node return no tool call)
GCall(t) ==
    /\ gpc[t] = "call"
    /\ \E o \in Outcomes :
        /\ outcomes' = [outcomes EXCEPT ![t] = Append(@, o)]
        /\ IF ~Failed(o)
           THEN /\ ret' = [ret EXCEPT ![t] = <<TextOf(o)>>]
                /\ gpc' = [gpc EXCEPT ![t] = "done"]
                /\ UNCHANGED <<wake, raised>>
           ELSE IF gkind[t] = "direct"
           THEN /\ ret' = [ret EXCEPT ![t] = <<"">>]
                /\ gpc' = [gpc EXCEPT ![t] = "done"]
                /\ UNCHANGED <<wake, raised>>
           ELSE IF reraises(attempt[t], o)
           THEN /\ raised' = [raised EXCEPT ![t] = TRUE]
                /\ gpc' = [gpc EXCEPT ![t] = "done"]
                /\ UNCHANGED <<wake, ret>>
           ELSE /\ wake' = [wake EXCEPT ![t] = now + backoff(attempt[t], o)]
                /\ gpc' = [gpc EXCEPT ![t] = "backoff"]
                /\ UNCHANGED <<ret, raised>>
    /\ UNCHANGED <<wfVars, apiVars, now, last_call_ts, gkind, attempt, callStarts>>

\* the sleep of the except branch returns; the for loop takes its next
\* attempt, or is exhausted and l.102 returns ""
GBackoffEnd(t) ==
    /\ gpc[t] = "backoff"
    /\ now >= wake[t]
    /\ attempt' = [attempt EXCEPT ![t] = @ + 1]
    /\ IF attempt[t] + 1 < max_attempts
       THEN /\ gpc' = [gpc EXCEPT ![t] = "check"]
            /\ UNCHANGED ret
       ELSE /\ gpc' = [gpc EXCEPT ![t] = "done"]
            /\ ret' = [ret EXCEPT ![t] = <<"">>]
    /\ wake' = [wake EXCEPT ![t] = 0]
    /\ UNCHANGED <<wfVars, apiVars, now, last_call_ts, gkind, outcomes, raised,
                   callStarts>>

\* the wall clock advances
Tick ==
    /\ now < MaxTime
    /\ now' = now + 1
    /\ UNCHANGED <<wfVars, apiVars, last_call_ts, gpc, gkind, attempt, wake, outcomes,
                   ret, raised, callStarts>>

\* no workflow run is modelled under SpecGateway
WorkflowIdle ==
    /\ pc = "END"
    /\ job_type = "full_time"
    /\ suggested_titles = <<>>
    /\ qualifying_jobs = <<>>
    /\ seen_urls = <<>>
    /\ current_batch = <<>>
    /\ phase1_last_tool_call = <<>>
    /\ phase1_tried_pairs = <<>>
    /\ phase1_rounds = 0
    /\ oddLeft = 0
    /\ agentVisits = 0
    /\ agentOutcome = "none"
    /\ lastRequest = NoRequest
    /\ searchCalls = 0
    /\ reportCalls = 0
    /\ gatewayCalls = NoCalls
    /\ lastTexts = NoTexts

\* l.66: _last_call_ts = 0.0 at import; time.time() is far past the epoch, so
\* the first check of a process never sleeps
InitGateway ==
    /\ WorkflowIdle
    /\ ApiIdle
    /\ now = COOLDOWN_SECONDS
    /\ last_call_ts = 0
    /\ gpc = [t \in Threads |-> "idle"]
    /\ gkind = [t \in Threads |-> "gateway"]
    /\ attempt = [t \in Threads |-> 0]
    /\ wake = [t \in Threads |-> 0]
    /\ outcomes = [t \in Threads |-> <<>>]
    /\ ret = [t \in Threads |-> <<>>]
    /\ raised = [t \in Threads |-> FALSE]
    /\ callStarts = <<>>

NextGateway ==
    \/ \E t \in Threads : GBegin(t)
    \/ \E t \in Threads : GCheck(t)
    \/ \E t \in Threads : GWake(t)
    \/ \E t \in Threads : GStamp(t)
    \/ \E t \in Threads : GCall(t)
    \/ \E t \in Threads : GBackoffEnd(t)
    \/ Tick

SpecGateway == InitGateway /\ [][NextGateway]_vars

\* One thread that invokes the gateway, or makes the agent node's direct
\* call, again and again, as the nodes of a single run do.
Solo == {"t1"}

\* the invocation has returned to the node, which makes its next one later
GReturn(t) ==
    /\ gpc[t] = "done"
    /\ ~raised[t]
    /\ gpc' = [gpc EXCEPT ![t] = "idle"]
    /\ UNCHANGED <<wfVars, apiVars, now, last_call_ts, gkind, attempt, wake,
                   outcomes, ret, raised, callStarts>>

InitSolo ==
    /\ WorkflowIdle
    /\ ApiIdle
    /\ now = COOLDOWN_SECONDS
    /\ last_call_ts = 0
    /\ gpc = [t \in Solo |-> "idle"]
    /\ gkind = [t \in Solo |-> "gateway"]
    /\ attempt = [t \in Solo |-> 0]
    /\ wake = [t \in Solo |-> 0]
    /\ outcomes = [t \in Solo |-> <<>>]
    /\ ret = [t \in Solo |-> <<>>]
    /\ raised = [t \in Solo |-> FALSE]
    /\ callStarts = <<>>

NextSolo ==
    \/ \E t \in Solo : GBegin(t)
    \/ \E t \in Solo : GCheck(t)
    \/ \E t \in Solo : GWake(t)
    \/ \E t \in Solo : GStamp(t)
    \/ \E t \in Solo : GCall(t)
    \/ \E t \in Solo : GBackoffEnd(t)
    \/ \E t \in Solo : GReturn(t)
    \/ Tick

SpecSolo == InitSolo /\ [][NextSolo]_vars


-----------------------------------------------------------------------------
(* _split_batch_suggestions on texts, l.605-677.  A text is a sequence of
   tokens: the markers "## JOB n", "### JOB n" and "JOB n:", the blank line
   that separates paragraphs, and runs of other characters of a given
   length.  Every marker is followed by a line break. *)

MaxTokens == 5      \* tokens of a text given to a helper function
MaxCount == 3       \* count argument of _split_batch_suggestions explored
MinChunkLen == 20   \* l.619, l.654, l.673: a chunk is kept when longer

H2(n) == [t |-> "## JOB", n |-> n]
H3(n) == [t |-> "### JOB", n |-> n]
Lenient(n) == [t |-> "JOB:", n |-> n]
Par == [t |-> "\n\n", n |-> 0]
Chars(n) == [t |-> "chars", n |-> n]

Markers == {"## JOB", "### JOB", "JOB:"}

\* the number of characters of a token, a marker's line break included
TokLen(tok) ==
    CASE tok.t = "## JOB" -> 9
      [] tok.t = "### JOB" -> 10
      [] tok.t = "JOB:" -> 6
      [] tok.t = "\n\n" -> 2
      [] OTHER -> tok.n

RECURSIVE TextLen(_)
TextLen(text) ==
    IF text = <<>> THEN 0 ELSE TokLen(text[1]) + TextLen(Tail(text))

\* len(chunk) of a stripped chunk: the line break of a marker at its end is
\* stripped as well
ChunkLen(chunk) ==
    TextLen(chunk)
    - (IF chunk # <<>> /\ chunk[Len(chunk)].t \in {"## JOB", "### JOB"} THEN 1 ELSE 0)

\* str.strip(): the blank lines at both ends are dropped
RECURSIVE StripText(_)
StripText(text) ==
    IF text = <<>> THEN <<>>
    ELSE IF text[1] = Par THEN StripText(Tail(text))
    ELSE IF text[Len(text)] = Par THEN StripText(SubSeq(text, 1, Len(text) - 1))
    ELSE text

\* str.find from a position: the first token of one of the kinds that carries
\* number n, 0 when there is none
FirstAt(text, kinds, n, from) ==
    LET S == {i \in from..Len(text) : text[i].t \in kinds /\ text[i].n = n}
    IN  IF S = {} THEN 0 ELSE CHOOSE i \in S : \A j \in S : i <= j

\* [""] * count
Blank(count) == [i \in 1..count |-> <<>>]

\* parts[i] = chunk, i counted from 0 as in the code
SetPart(parts, i, chunk) == [parts EXCEPT ![i + 1] = chunk]

\* any(parts)
AnyPart(parts) == \E i \in 1..Len(parts) : parts[i] # <<>>

\* the characters of the end marker that lie before the place where the
\* search pattern was found: "## JOB n" is found one character into
\* "### JOB n", and "JOB n" two or three characters into a "#" marker
Residue(pattern, tok) ==
    CASE pattern = "## JOB" /\ tok.t = "### JOB" -> <<Chars(1)>>
      [] pattern = "JOB" /\ tok.t = "## JOB" -> <<Chars(2)>>
      [] pattern = "JOB" /\ tok.t = "### JOB" -> <<Chars(3)>>
      [] OTHER -> <<>>

\* the token kinds in which a marker pattern of try_markers is found
FoundIn(pattern) ==
    IF pattern = "## JOB" THEN {"## JOB", "### JOB"} ELSE {"### JOB"}

\* l.609-621, try_markers for the markers i+1 .. count of one pattern
RECURSIVE try_markers(_, _, _, _, _)
try_markers(text, count, pattern, i, parts) ==
    IF i >= count THEN parts
    ELSE LET p == FirstAt(text, FoundIn(pattern), i + 1, 1)
             e == IF i + 1 < count
                  THEN FirstAt(text, FoundIn(pattern), i + 2, 1)
                  ELSE 0
             chunk == IF e = 0
                      THEN StripText(SubSeq(text, p + 1, Len(text)))
                      ELSE StripText(SubSeq(text, p + 1, e - 1)
                                     \o (IF e > p THEN Residue(pattern, text[e])
                                                  ELSE <<>>))
         IN  try_markers(text, count, pattern, i + 1,
                IF p # 0 /\ ChunkLen(chunk) > MinChunkLen
                THEN SetPart(parts, i, chunk)
                ELSE parts)

\* l.646-652: the end of a lenient chunk, the first later "JOB j" that is
\* found behind the start, for j in increasing order
RECURSIVE lenient_end(_, _, _, _)
lenient_end(text, count, j, start) ==
    IF j > count THEN 0
    ELSE LET pos == FirstAt(text, Markers, j, start)
         IN  IF pos # 0 THEN pos ELSE lenient_end(text, count, j + 1, start)

\* l.631-656: the lenient patterns; "JOB n:" is looked for first, then
\* "JOB n" before a line break, which the "#" markers contain
RECURSIVE lenient_markers(_, _, _, _)
lenient_markers(text, count, i, parts) ==
    IF i >= count THEN parts
    ELSE LET p1 == FirstAt(text, {"JOB:"}, i + 1, 1)
             p == IF p1 # 0 THEN p1
                  ELSE FirstAt(text, {"## JOB", "### JOB"}, i + 1, 1)
             e == lenient_end(text, count, i + 2, p + 1)
             chunk == IF e = 0
                      THEN StripText(SubSeq(text, p + 1, Len(text)))
                      ELSE StripText(SubSeq(text, p + 1, e - 1)
                                     \o Residue("JOB", text[e]))
         IN  lenient_markers(text, count, i + 1,
                IF p # 0 /\ ChunkLen(chunk) > MinChunkLen
                THEN SetPart(parts, i, chunk)
                ELSE parts)

\* l.668: stripped.split("\n\n") without the blank chunks
RECURSIVE Paragraphs(_, _)
Paragraphs(text, cur) ==
    IF text = <<>> THEN (IF cur = <<>> THEN <<>> ELSE <<cur>>)
    ELSE IF text[1] = Par
         THEN (IF cur = <<>> THEN <<>> ELSE <<cur>>) \o Paragraphs(Tail(text), <<>>)
         ELSE Paragraphs(Tail(text), Append(cur, text[1]))

\* "\n\n".join(chunks)
RECURSIVE JoinParagraphs(_)
JoinParagraphs(chunks) ==
    IF chunks = <<>> THEN <<>>
    ELSE IF Len(chunks) = 1 THEN chunks[1]
    ELSE chunks[1] \o <<Par>> \o JoinParagraphs(Tail(chunks))

\* l.672-674: chunk i goes to job i when it is long enough
RECURSIVE assign_chunks(_, _, _, _)
assign_chunks(chunks, count, i, parts) ==
    IF i >= Min(count, Len(chunks)) THEN parts
    ELSE assign_chunks(chunks, count, i + 1,
            IF ChunkLen(chunks[i + 1]) > MinChunkLen
            THEN SetPart(parts, i, chunks[i + 1])
            ELSE parts)

\* variant of fold_rest: the chunks beyond count are added as a further part
fold_rest_appended(chunks, count, parts) ==
    IF Len(chunks) > count
    THEN Append(parts, JoinParagraphs(SubSeq(chunks, count, Len(chunks))))
    ELSE parts

\* l.675-676: the chunks beyond count are folded into the last part
fold_rest(chunks, count, parts) ==
    IF Len(chunks) > count
    THEN SetPart(parts, count - 1, JoinParagraphs(SubSeq(chunks, count, Len(chunks))))
    ELSE parts

\* l.661-677: the fallback when no marker gave a part
split_fallback(text, count) ==
    LET stripped == StripText(text)
        chunks == Paragraphs(stripped, <<>>)
    IN  IF stripped = <<>> THEN Blank(count)
        ELSE IF count = 1 THEN SetPart(Blank(count), 0, stripped)
        ELSE IF chunks = <<>> THEN SetPart(Blank(count), 0, stripped)
        ELSE fold_rest(chunks, count,
                       assign_chunks(chunks, count, 0, Blank(count)))

\* l.605-677
split_batch_suggestions_text(text, count) ==
    LET m2 == try_markers(text, count, "## JOB", 0, Blank(count))
        m3 == try_markers(text, count, "### JOB", 0, Blank(count))
        ml == lenient_markers(text, count, 0, Blank(count))
    IN  IF AnyPart(m2) THEN m2
        ELSE IF AnyPart(m3) THEN m3
        ELSE IF AnyPart(ml) THEN ml
        ELSE split_fallback(text, count)

\* the tokens the texts are made of, and the texts
SplitTokens ==
    {H2(1), H2(2), H3(1), H3(2), Lenient(1), Par, Chars(5), Chars(30)}

SeqsUpTo(S, n) == UNION {[1..k -> S] : k \in 0..n}

SplitTexts == SeqsUpTo(SplitTokens, MaxTokens)

\* one application of _split_batch_suggestions
SplitBatchSuggestions ==
    /\ fnCall = NoCall
    /\ \E text \in SplitTexts : \E count \in 1..MaxCount :
          fnCall' = [fn |-> "_split_batch_suggestions", text |-> text,
                     count |-> count,
                     result |-> split_batch_suggestions_text(text, count)]
    /\ UNCHANGED <<wfVars, gwVars, results>>

-----------------------------------------------------------------------------
(* _extract_json_array on texts, l.105-155.  A text is a sequence of tokens:
   the code fence with and without the "json" tag, the brackets, a mapping
   literal {"idx": n} (no bracket inside), a string literal that contains a
   "]", the comma, the line break, and prose without brackets or quotes. *)

Fence == [t |-> "fence", n |-> 0]
FenceJson == [t |-> "fence json", n |-> 0]
Tag == [t |-> "json", n |-> 0]
LB == [t |-> "[", n |-> 0]
RB == [t |-> "]", n |-> 0]
Obj(n) == [t |-> "{}", n |-> n]
StrRB == [t |-> "str]", n |-> 0]
Comma == [t |-> ",", n |-> 0]
NL == [t |-> "\n", n |-> 0]
Prose == [t |-> "prose", n |-> 0]
\* what is left of a string literal that was cut in two
Broken == [t |-> "cut", n |-> 0]
\* a list inside the list
Nested == [t |-> "[]", n |-> 0]

\* str.strip(): the line breaks at both ends are dropped
RECURSIVE StripNL(_)
StripNL(text) ==
    IF text = <<>> THEN <<>>
    ELSE IF text[1] = NL THEN StripNL(Tail(text))
    ELSE IF text[Len(text)] = NL THEN StripNL(SubSeq(text, 1, Len(text) - 1))
    ELSE text

\* l.108-111: the text behind the first fence, without the "json" tag
strip_fence(t) ==
    LET behind == IF t # <<>> /\ t[1] = Fence THEN Tail(t)
                  ELSE IF t # <<>> /\ t[1] = FenceJson THEN <<Tag>> \o Tail(t)
                  ELSE t
    IN  IF behind # <<>> /\ behind[1] = Tag THEN Tail(behind) ELSE behind

\* str.find / str.rfind of a character: the first and the last token of the
\* given kinds, 0 when there is none
FirstKind(t, kinds) ==
    LET S == {i \in 1..Len(t) : t[i].t \in kinds}
    IN  IF S = {} THEN 0 ELSE CHOOSE i \in S : \A j \in S : i <= j

LastKind(t, kinds) ==
    LET S == {i \in 1..Len(t) : t[i].t \in kinds}
    IN  IF S = {} THEN 0 ELSE CHOOSE i \in S : \A j \in S : i >= j

\* variant of match_end: the "]" inside a string literal closes a bracket too
RECURSIVE match_end_any_bracket(_, _, _)
match_end_any_bracket(t, i, depth) ==
    IF i > Len(t) THEN 0
    ELSE IF t[i] = LB THEN match_end_any_bracket(t, i + 1, depth + 1)
    ELSE IF t[i] = RB \/ t[i] = StrRB
         THEN (IF depth = 1 THEN i ELSE match_end_any_bracket(t, i + 1, depth - 1))
    ELSE match_end_any_bracket(t, i + 1, depth)

\* l.116-141: the token of the "]" that matches the "[" the scan starts at,
\* 0 when none does; characters inside string literals are skipped
RECURSIVE match_end(_, _, _)
match_end(t, i, depth) ==
    IF i > Len(t) THEN 0
    ELSE IF t[i] = LB THEN match_end(t, i + 1, depth + 1)
    ELSE IF t[i] = RB
         THEN (IF depth = 1 THEN i ELSE match_end(t, i + 1, depth - 1))
    ELSE match_end(t, i + 1, depth)

\* l.112-146: raw = t[start:end]; <<>> stands for the early returns
bracket_span(t) ==
    LET start == FirstKind(t, {"["})
        m == IF start = 0 THEN 0 ELSE match_end(t, start, 0)
        last == LastKind(t, {"]", "str]"})
    IN  IF start = 0 THEN <<>>
        ELSE IF m # 0 THEN SubSeq(t, start, m)
        ELSE IF last < start THEN <<>>
        ELSE IF t[last] = StrRB THEN SubSeq(t, start, last - 1) \o <<Broken>>
        ELSE SubSeq(t, start, last)

\* l.148: re.sub(r"\}\s*\n\s*\{", "},{", raw)
RECURSIVE repair_commas(_)
repair_commas(raw) ==
    IF Len(raw) < 3 THEN raw
    ELSE IF raw[1].t = "{}" /\ raw[2] = NL
         THEN LET k == CHOOSE k \in 2..Len(raw) :
                          /\ \A j \in 2..k : raw[j] = NL
                          /\ (k = Len(raw) \/ raw[k + 1] # NL)
              IN  IF k < Len(raw) /\ raw[k + 1].t = "{}"
                  THEN <<raw[1], Comma>> \o repair_commas(SubSeq(raw, k + 1, Len(raw)))
                  ELSE <<raw[1]>> \o repair_commas(Tail(raw))
    ELSE <<raw[1]>> \o repair_commas(Tail(raw))

\* json.loads ignores the white space between the tokens
NoSpace(raw) == SelectSeq(raw, LAMBDA tok : tok # NL)

NoParse == [ok |-> FALSE, next |-> 0, elems |-> <<>>]

\* json.loads on a list: the elements of the list that opens at token i,
\* each nested list as one element, and the token behind its "]"
RECURSIVE parse_list(_, _)
RECURSIVE parse_elems(_, _, _)
parse_elems(toks, i, elems) ==
    IF i > Len(toks) THEN NoParse
    ELSE LET v == IF toks[i].t \in {"{}", "str]"}
                  THEN [ok |-> TRUE, next |-> i + 1, elems |-> <<toks[i]>>]
                  ELSE IF toks[i] = LB
                  THEN LET l == parse_list(toks, i)
                       IN  [ok |-> l.ok, next |-> l.next, elems |-> <<Nested>>]
                  ELSE NoParse
         IN  IF ~v.ok \/ v.next > Len(toks) THEN NoParse
             ELSE IF toks[v.next] = RB
                  THEN [ok |-> TRUE, next |-> v.next + 1, elems |-> elems \o v.elems]
             ELSE IF toks[v.next] = Comma
                  THEN parse_elems(toks, v.next + 1, elems \o v.elems)
             ELSE NoParse

parse_list(toks, i) ==
    IF i + 1 > Len(toks) \/ toks[i] # LB THEN NoParse
    ELSE IF toks[i + 1] = RB THEN [ok |-> TRUE, next |-> i + 2, elems |-> <<>>]
    ELSE parse_elems(toks, i + 1, <<>>)

\* json.loads(raw) with isinstance(parsed, list): the whole text is one list
json_loads(raw) ==
    LET toks == NoSpace(raw)
        l == parse_list(toks, 1)
    IN  IF l.ok /\ l.next = Len(toks) + 1 THEN l ELSE NoParse

\* l.152: [x for x in parsed if isinstance(x, dict)]
only_mappings(elems) == SelectSeq(elems, LAMBDA x : x.t = "{}")

\* l.105-155
extract_json_array(text) ==
    LET raw == repair_commas(bracket_span(strip_fence(StripNL(text))))
        parsed == json_loads(raw)
    IN  IF parsed.ok THEN only_mappings(parsed.elems) ELSE <<>>

\* the text wrapped in a ```json code fence
Fenced(text) == <<FenceJson, NL>> \o text \o <<NL, Fence>>

JsonTokens == {Fence, FenceJson, LB, RB, Obj(0), Obj(1), StrRB, Comma, NL, Prose}

JsonTexts == SeqsUpTo(JsonTokens, MaxTokens)

\* one application of _extract_json_array to a text, and one to the same
\* text in a code fence
ExtractJsonArray ==
    /\ fnCall = NoCall
    /\ \E text \in JsonTexts :
          fnCall' = [fn |-> "_extract_json_array", text |-> text,
                     result |-> extract_json_array(text),
                     fenced_result |-> extract_json_array(Fenced(text))]
    /\ UNCHANGED <<wfVars, gwVars, results>>

-----------------------------------------------------------------------------
(* score_batch_node l.511-529 on one response text and one batch: the scores
   given to the batch items and the jobs appended *)

MaxItems == 2      \* items of a scoring response explored
MaxBatch == 2      \* size of the scored batch explored

ScoreIdxValues == {IntVal(0), IntVal(1), StrVal("first"), NullVal, AbsentVal}
ScoreValues == {IntVal(95), IntVal(60), StrVal("high"), NullVal, AbsentVal}

ScoreItems == {ScoreItem(idx, sc) : idx \in ScoreIdxValues, sc \in ScoreValues}

ScoreTexts ==
    {EmptyText, GarbageText}
    \cup {ArrayText(items) : items \in SeqsUpTo(ScoreItems, MaxItems)}

ScoredBatches == {[i \in 1..n |-> Listing(100 + i)] : n \in 1..MaxBatch}

\* one scoring of a batch
ScoreBatchScores ==
    /\ fnCall = NoCall
    /\ \E text \in ScoreTexts : \E batch \in ScoredBatches :
          LET scores == batch_scores(text, batch)
          IN  fnCall' = [fn |-> "score_batch_node", text |-> text, batch |-> batch,
                         scores |-> scores,
                         added |-> scored_qualifying(batch, scores, 1)]
    /\ UNCHANGED <<wfVars, gwVars, results>>

InitHelpers ==
    /\ WorkflowIdle
    /\ GatewayIdle
    /\ ApiIdle

NextHelpers ==
    \/ SplitBatchSuggestions
    \/ ExtractJsonArray
    \/ ScoreBatchScores

SpecHelpers == InitHelpers /\ [][NextHelpers]_vars

-----------------------------------------------------------------------------
(* Properties of the discovery loop *)

LogPairs == { <<phase1_tried_pairs[i].title, phase1_tried_pairs[i].page>> :
                 i \in 1..Len(phase1_tried_pairs) }

DiscoveryNodes == {"phase1_agent", "phase1_tools", "score_batch"}

\* the pair in the tool call the routing function hands to phase1_tool_node
HandedPair == <<phase1_last_tool_call[1].job_title, phase1_last_tool_call[1].page>>

\* the title list of the canonical order: the suggested titles, and the
\* single default title the controller searches for when there are none
CanonTitles ==
    IF suggested_titles = <<>> THEN <<"Software Engineer">> ELSE suggested_titles

\* pair is the first pair, by title position and then page 0..5, not in the log
IsFirstUntried(pair) ==
    \E i \in 1..Len(CanonTitles), p \in 0..max_page_per_title :
        /\ pair = <<CanonTitles[i], p>>
        /\ pair \notin LogPairs
        /\ \A j \in 1..Len(CanonTitles), q \in 0..max_page_per_title :
              (j < i \/ (j = i /\ q < p)) => <<CanonTitles[j], q>> \in LogPairs

\* every (title, page) with a suggested title and page 0..5 is in the log
AllSuggestedPairsTried ==
    \A i \in 1..Len(suggested_titles), p \in 0..max_page_per_title :
        <<suggested_titles[i], p>> \in LogPairs

\* C1: no run executes phase1_agent_node more than maxRounds + 1 = 16 times.
C1_AtMost16Visits == agentVisits <= V3_PHASE1_MAX_ROUNDS + 1

\* C2: the attempt log never holds two entries with the same (title, page).
C2_NoDuplicatePair ==
    \A i, j \in 1..Len(phase1_tried_pairs) :
        i # j => <<phase1_tried_pairs[i].title, phase1_tried_pairs[i].page>>
                 # <<phase1_tried_pairs[j].title, phase1_tried_pairs[j].page>>

\* C3: every job of the qualifying collection has score >= 85, at every node
\* from score_batch to the end of the run.
C3_QualifyingScore ==
    \A i \in 1..Len(qualifying_jobs) : qualifying_jobs[i].score >= 85

C3_Witness ==
    /\ pc = "END"
    /\ Len(qualifying_jobs) >= 4
    /\ \E i \in 1..Len(qualifying_jobs) : qualifying_jobs[i].score = 85

\* C4: when the target is not met and every suggested (title, page 0..5) is
\* in the log, phase1_agent_node issues no tool call and the next node is the
\* resume-suggestion pass.
C4_ExhaustionExits ==
    [][ ( /\ pc = "phase1_agent"
          /\ agentVisits' = agentVisits + 1
          /\ suggested_titles # <<>>
          /\ Len(qualifying_jobs) < V3_TARGET_QUALIFYING_JOBS
          /\ AllSuggestedPairsTried )
        => ( phase1_last_tool_call' = <<>> /\ pc' = "resume_modifier_agent" ) ]_vars

\* C5: when the tool-schema call of phase1_agent_node fails with a transport
\* error, the node yields no tool call and the next node is the
\* resume-suggestion pass.
C5_TransportFailureExits ==
    [][ ( /\ pc = "phase1_agent"
          /\ agentVisits' = agentVisits + 1
          /\ agentOutcome' = "error" )
        => ( phase1_last_tool_call' = <<>> /\ pc' = "resume_modifier_agent" ) ]_vars

\* the target of 10 qualifying jobs or the cap of 15 rounds is reached
TargetOrRoundsReached ==
    \/ Len(qualifying_jobs) >= V3_TARGET_QUALIFYING_JOBS
    \/ phase1_rounds >= V3_PHASE1_MAX_ROUNDS

\* C6: once 10 jobs qualify or the round counter is 15, no search-service
\* call is made any more, the round counter stays, phase1_tool_node and
\* score_batch_node are not entered, and the routing after the next
\* phase1_agent_node goes to the resume-suggestion pass.
C6_LoopEnds ==
    /\ [](TargetOrRoundsReached => pc \notin {"phase1_tools", "score_batch"})
    /\ [][ TargetOrRoundsReached =>
              /\ searchCalls' = searchCalls
              /\ phase1_rounds' = phase1_rounds
              /\ pc = "phase1_agent" => pc' = "resume_modifier_agent" ]_vars

C6_Witness ==
    /\ pc = "resume_modifier_agent"
    /\ Len(qualifying_jobs) >= V3_TARGET_QUALIFYING_JOBS
    /\ phase1_rounds > 1
    /\ phase1_rounds < V3_PHASE1_MAX_ROUNDS

\* the request names the pair of an entry of the log
NamesTriedPair(req) ==
    /\ req.kind = "call"
    /\ req.shape = "mapping"
    /\ req.job_title.k = "str"
    /\ req.page.k = "int"
    /\ <<req.job_title.s, req.page.n>> \in LogPairs

\* C7: when the model's tool call names a pair already in the log, the pair
\* handed to phase1_tool_node is the first untried pair in canonical order
\* and is not in the log.
C7_TriedPairOverridden ==
    (pc = "phase1_tools" /\ NamesTriedPair(lastRequest))
    => (IsFirstUntried(HandedPair) /\ HandedPair \notin LogPairs)

C7_Witness ==
    /\ pc = "phase1_tools"
    /\ NamesTriedPair(lastRequest)
    /\ Len(phase1_tried_pairs) >= 2
    /\ HandedPair[1] # phase1_tried_pairs[1].title

\* the request has absent or malformed arguments or names an unknown title
Malformed(req) ==
    /\ req.kind = "call"
    /\ \/ req.shape # "mapping"
       \/ req.job_title.k # "str"
       \/ req.page.k \in {"str", "null"}
       \/ Strip(req.job_title.s) \notin Range(suggested_titles)

\* the request with its unusable fields replaced by the defaults: the first
\* title of the list for a missing title (and for an unknown one when there
\* are suggested titles), page 0 for a missing or non-integer page
Defaulted(req) ==
    LET readable == req.shape = "mapping"
        t == IF readable /\ req.job_title.k = "str" /\ req.job_title.s # ""
             THEN Strip(req.job_title.s) ELSE CanonTitles[1]
        title == IF suggested_titles # <<>> /\ t \notin Range(suggested_titles)
                 THEN CanonTitles[1] ELSE t
        page == IF readable /\ req.page.k = "int" THEN req.page.n ELSE 0
    IN  <<title, page>>

-----------------------------------------------------------------------------
(* Properties of the generation gateway *)

\* C9: two successive generation-service calls of the process, made through
\* the gateway or directly by phase1_agent_node, start at least
\* COOLDOWN_SECONDS apart (and so any two calls do).
C9_CallsCooldownApart ==
    Len(callStarts) = 2 => callStarts[2].at - callStarts[1].at >= COOLDOWN_SECONDS

\* C10: one gateway invocation makes at most max_attempts outbound calls,
\* never raises, makes no call after a successful one, and returns the text
\* of its first successful call, or "" when every attempt failed.
C10_GatewayReturns ==
    \A t \in Threads :
        gkind[t] = "gateway" =>
            /\ ~raised[t]
            /\ Len(outcomes[t]) <= max_attempts
            /\ AllFailed(SubSeq(outcomes[t], 1, Len(outcomes[t]) - 1))
            /\ gpc[t] # "done" => AllFailed(outcomes[t])
            /\ gpc[t] = "done" =>
                  /\ outcomes[t] # <<>>
                  /\ IF Failed(outcomes[t][Len(outcomes[t])])
                     THEN ret[t] = <<"">> /\ Len(outcomes[t]) = max_attempts
                     ELSE ret[t] = <<TextOf(outcomes[t][Len(outcomes[t])])>>

\* an invocation has returned "" after max_attempts failed calls, the last
\* one a 429, and another has returned the text of its second call
C10_Witness ==
    \E t, u \in Threads :
        /\ gkind[t] = "gateway" /\ gpc[t] = "done"
        /\ Len(outcomes[t]) = max_attempts /\ outcomes[t][max_attempts] = "429"
        /\ ret[t] = <<"">>
        /\ gkind[u] = "gateway" /\ gpc[u] = "done"
        /\ Len(outcomes[u]) = 2 /\ ret[u] = <<"response">>

-----------------------------------------------------------------------------
(* Properties of the scoring and enrichment passes *)

Urls(q) == [i \in 1..Len(q) |-> q[i].url]

NoRepeat(q) == \A i, j \in 1..Len(q) : i # j => q[i] # q[j]

\* C11: no response of the generation service makes a scoring or enrichment
\* node raise: no run ends in a node that raised.
C11_NoNodeRaises == pc # "raised"

\* C12: a batch handed to score_batch_node holds no URL twice and no URL seen
\* before the search, every URL handed over is in the seen URLs from then
\* on, and no two qualifying jobs share a URL.
C12_NoUrlScoredTwice ==
    /\ [](/\ NoRepeat(Urls(current_batch))
          /\ Range(Urls(current_batch)) \subseteq Range(seen_urls)
          /\ NoRepeat(Urls(qualifying_jobs)))
    /\ [][ pc = "phase1_tools" =>
              Range(Urls(current_batch')) \cap Range(seen_urls) = {} ]_vars

\* page 1 of "Data Analyst" has been searched after page 0: of its three
\* listings one was returned by page 0 and one has no URL, one is handed on
C12_Witness ==
    /\ pc = "score_batch"
    /\ Len(phase1_tried_pairs) >= 2
    /\ LET last == phase1_tried_pairs[Len(phase1_tried_pairs)] IN
          /\ last.title = "Data Analyst" /\ last.page = 1
          /\ last.jobs_returned = 1
          /\ Len(Catalog(last.title, last.page)) = 3
    /\ <<"Data Analyst", 0>> \in LogPairs
    /\ Len(current_batch) = 1

\* C13: the seen URLs only grow: every step keeps each seen URL, no URL is
\* in the collection twice, and only phase1_tool_node changes it.
C13_SeenUrlsGrow ==
    /\ [](NoRepeat(seen_urls))
    /\ [][ /\ Range(seen_urls) \subseteq Range(seen_urls')
           /\ Len(seen_urls) <= Len(seen_urls')
           /\ seen_urls' # seen_urls => pc = "phase1_tools" ]_vars

\* a run has ended with URLs collected by three searches or more
C13_Witness ==
    /\ pc = "END"
    /\ Len(seen_urls) >= 3
    /\ searchCalls >= 3

\* the edges of the graph: the fixed edges and the three targets of the
\* conditional edge after phase1_agent
NodeEdges ==
    { <<"decide_titles", "phase1_agent">>,
      <<"phase1_agent", "phase1_agent">>,
      <<"phase1_agent", "phase1_tools">>,
      <<"phase1_agent", "resume_modifier_agent">>,
      <<"phase1_tools", "score_batch">>,
      <<"score_batch", "phase1_agent">>,
      <<"resume_modifier_agent", "project_proposer">>,
      <<"project_proposer", "future_scores">>,
      <<"future_scores", "relevance_summary">>,
      <<"relevance_summary", "END">> }

\* C14: every step of a run follows an edge of the graph: title suggestion,
\* the discovery loop, then the resume, project, future-score and
\* relevance passes once each in this order, then the terminal node; a node
\* other than phase1_agent has one successor.
C14_NodeOrder == [][ (<<pc, pc'>> \in NodeEdges) ]_vars

Ceil(n, d) == IF n % d = 0 THEN n \div d ELSE (n \div d) + 1

\* position of the enrichment pass the run executed last (0: none yet)
PassNo(node) ==
    CASE node = "resume_modifier_agent" -> 1
      [] node = "project_proposer" -> 2
      [] node = "future_scores" -> 3
      [] node = "relevance_summary" -> 4
      [] OTHER -> 0

PassesRun == PassNo(lastTexts.node)

\* C15: for n qualifying jobs the resume and project passes have made
\* ceil(n/3) gateway invocations each, the future-score pass one, and the
\* relevance pass ceil(n/6), once the pass has run.
C15_InvocationsPerPass ==
    LET n == Len(qualifying_jobs) IN
    /\ PassesRun >= 1 => gatewayCalls["resume_modifier_agent"] = Ceil(n, BATCH_SIZE)
    /\ PassesRun >= 2 => gatewayCalls["project_proposer"] = Ceil(n, BATCH_SIZE)
    /\ PassesRun >= 3 => gatewayCalls["future_scores"] = 1
    /\ PassesRun >= 4 => gatewayCalls["relevance_summary"] = Ceil(n, RELEVANCE_BATCH_SIZE)

\* C16: after the resume pass every qualifying job has a non-empty
\* resume_suggestions, and every job of a batch whose response was empty has
\* the placeholder.
C16_ResumePlaceholder ==
    /\ PassesRun >= 1 =>
          \A i \in 1..Len(qualifying_jobs) :
             /\ qualifying_jobs[i].resume_suggestions # <<>>
             /\ qualifying_jobs[i].resume_suggestions # <<"">>
    /\ PassesRun = 1 =>
          \A i \in 1..Len(qualifying_jobs) :
             lastTexts.texts[((i - 1) \div BATCH_SIZE) + 1].kind = "empty"
             => qualifying_jobs[i].resume_suggestions = <<Placeholder>>

\* the resume pass has run on two batches or more, one answered with empty
\* text and one with suggestions
C16_Witness ==
    /\ PassesRun = 1
    /\ Len(qualifying_jobs) > BATCH_SIZE
    /\ \E i, j \in 1..Len(qualifying_jobs) :
          /\ lastTexts.texts[((i - 1) \div BATCH_SIZE) + 1].kind = "empty"
          /\ qualifying_jobs[i].resume_suggestions = <<Placeholder>>
          /\ qualifying_jobs[j].resume_suggestions \notin {<<>>, <<"">>, <<Placeholder>>}

\* the response text of the batch job i belongs to, for batches of size
BatchTextOf(i, size) == lastTexts.texts[((i - 1) \div size) + 1]

\* text has an item addressed to position k of its batch that carries val
Addressed(text, k, val) ==
    /\ text.kind = "array"
    /\ \E m \in 1..Len(text.items) :
          text.items[m].idx = IntVal(k) /\ text.items[m].a.s = val

Mentioned(text, i) ==
    /\ text.kind = "array"
    /\ \E m \in 1..Len(text.items) : text.items[m].idx = IntVal(i - 1)

\* C18: once the future-score pass has run, every qualifying job has
\* improvement_potential = future_score - score, and right after the pass a
\* job the response does not mention has future_score = min(100, score + 10).
C18_ImprovementPotential ==
    /\ PassesRun >= 3 =>
          \A i \in 1..Len(qualifying_jobs) :
             LET j == qualifying_jobs[i] IN
             /\ j.future_score # <<>>
             /\ j.improvement_potential = <<j.future_score[1] - j.score>>
    /\ PassesRun = 3 =>
          \A i \in 1..Len(qualifying_jobs) :
             ~Mentioned(lastTexts.texts[1], i)
             => qualifying_jobs[i].future_score =
                   <<Min(100, qualifying_jobs[i].score + 10)>>

\* the pass has run on two jobs or more: the first was given a future score
\* other than the default by the response, the second is not mentioned
C18_Witness ==
    /\ PassesRun = 3
    /\ pc = "relevance_summary"
    /\ Len(qualifying_jobs) >= 2
    /\ Mentioned(lastTexts.texts[1], 1)
    /\ ~Mentioned(lastTexts.texts[1], 2)
    /\ qualifying_jobs[1].future_score # <<Min(100, qualifying_jobs[1].score + 10)>>
    /\ qualifying_jobs[1].improvement_potential[1] < 0

\* C19: in the relevance pass a job whose response item has neither a
\* working nor a not_working text is left without a summary: no job is given
\* the empty string as its brief_relevance_summary.
C19_NoEmptySummary ==
    \A i \in 1..Len(qualifying_jobs) :
        qualifying_jobs[i].brief_relevance_summary # <<"">>

\* the titles of the model that contain "intern" (case-insensitive)
InternTitles == {"Software Engineer Intern"}

\* C20: with job_type internship every suggested title contains "Intern".
C20_InternshipTitles ==
    (job_type = "internship" /\ pc # "decide_titles")
    => \A i \in 1..Len(suggested_titles) : suggested_titles[i] \in InternTitles

\* C21: once Title Suggestion has run there are between 1 and 4 suggested
\* titles, each a non-empty string, at most 3 for full_time and internship and
\* at most 4 for both, whatever text the generation service returned.
C21_TitleCount ==
    pc # "decide_titles"
    => /\ Len(suggested_titles) >= 1
       /\ Len(suggested_titles) <= (IF job_type = "both" THEN 4 ELSE 3)
       /\ \A i \in 1..Len(suggested_titles) : suggested_titles[i] # ""

\* the number of positions of s that hold x
Occurrences(s, x) == Cardinality({i \in 1..Len(s) : s[i] = x})

\* C22: the job list handed back at the end of a run is ordered by
\* improvement_potential, non-increasing, and is a permutation of the
\* qualifying collection the workflow state holds at the terminal node.
C22_ResultsSorted ==
    results.status = "completed"
    => /\ \A i \in 1..Len(results.jobs) : \A j \in i..Len(results.jobs) :
              potential(results.jobs[i]) >= potential(results.jobs[j])
       /\ Len(results.jobs) = Len(qualifying_jobs)
       /\ \A i \in 1..Len(qualifying_jobs) :
              Occurrences(results.jobs, qualifying_jobs[i])
                  = Occurrences(qualifying_jobs, qualifying_jobs[i])

\* a run was handed back whose sort moved a job, and in which two jobs have
\* the same improvement_potential
C22_Witness ==
    /\ results.status = "completed"
    /\ results.jobs # qualifying_jobs
    /\ \E i, j \in 1..Len(results.jobs) :
          i # j /\ potential(results.jobs[i]) = potential(results.jobs[j])

\* C23: _split_batch_suggestions(text, n) returns exactly n strings for every
\* n >= 1 and every text, the empty text included, whichever marker strategy
\* or paragraph fallback applies.
C23_ExactlyCountParts ==
    fnCall.fn = "_split_batch_suggestions"
    => Len(fnCall.result) = fnCall.count

\* the paragraph fallback was applied to a text of more paragraphs than jobs,
\* and folded the surplus into the last part
C23_Witness ==
    /\ fnCall.fn = "_split_batch_suggestions"
    /\ fnCall.count >= 2
    /\ ~\E i \in 1..Len(fnCall.text) : fnCall.text[i].t \in Markers
    /\ Len(Paragraphs(StripText(fnCall.text), <<>>)) > fnCall.count
    /\ \E i \in 1..Len(fnCall.result[fnCall.count]) :
          fnCall.result[fnCall.count][i] = Par

\* the text is a JSON array as it stands
IsJsonArray(text) == json_loads(text).ok

\* the text has no "[", or no "]" behind its first "["
NoBracketPair(text) ==
    \/ FirstKind(text, {"["}) = 0
    \/ LastKind(text, {"]", "str]"}) < FirstKind(text, {"["})

\* C24 as stated: _extract_json_array returns the same list of mappings for a
\* raw JSON array text and for the same text in a ```json code fence, the
\* empty list on every input that does not parse as a JSON array, and no
\* element that is not a mapping.
C24_ExtractJsonArray ==
    fnCall.fn = "_extract_json_array"
    => /\ IsJsonArray(fnCall.text)
          => /\ fnCall.result = only_mappings(json_loads(fnCall.text).elems)
             /\ fnCall.fenced_result = fnCall.result
       /\ ~IsJsonArray(fnCall.text) => fnCall.result = <<>>
       /\ \A i \in 1..Len(fnCall.result) : fnCall.result[i].t = "{}"

\* the slice of the text from its first "[" to the matching "]" (to the last
\* "]" when none matches) is a JSON array once the missing commas are put in
SliceIsJsonArray(text) ==
    json_loads(repair_commas(bracket_span(strip_fence(StripNL(text))))).ok

\* C24 amended: the same list of mappings, in the order of the array, for a
\* raw JSON array text and for the same text in a ```json code fence; the
\* empty list on every input whose slice from the first "[" to the matching
\* "]" does not parse as a JSON array, so on every input without a "[" or
\* without a "]" behind its first "["; and only mappings that occur in the
\* text are returned.
C24_ExtractJsonArrayTolerant ==
    fnCall.fn = "_extract_json_array"
    => /\ IsJsonArray(fnCall.text)
          => /\ fnCall.result = only_mappings(json_loads(fnCall.text).elems)
             /\ fnCall.fenced_result = fnCall.result
       /\ ~SliceIsJsonArray(fnCall.text) => fnCall.result = <<>>
       /\ NoBracketPair(fnCall.text) => fnCall.result = <<>>
       /\ \A i \in 1..Len(fnCall.result) :
             /\ fnCall.result[i].t = "{}"
             /\ fnCall.result[i] \in Range(fnCall.text)

\* a JSON array of a string that contains "]" and a mapping was given, raw
\* and fenced, and the mapping came back both times
C24_Witness ==
    /\ fnCall.fn = "_extract_json_array"
    /\ IsJsonArray(fnCall.text)
    /\ StrRB \in Range(fnCall.text)
    /\ Len(fnCall.fenced_result) = 1
    /\ fnCall.fenced_result = fnCall.result

\* the fields of a job that the node at pc may write
OwnFields ==
    CASE pc = "resume_modifier_agent" -> {"resume_suggestions"}
      [] pc = "project_proposer" -> {"project_suggestions"}
      [] pc = "future_scores" -> {"future_score", "improvement_potential"}
      [] pc = "relevance_summary" -> {"brief_relevance_summary"}
      [] OTHER -> {}

C26_RoundPerScoreVisit ==
    /\ [][pc = "score_batch" => phase1_rounds' = phase1_rounds + 1]_vars
    /\ [](pc # "score_batch" => phase1_rounds = Len(phase1_tried_pairs))

\* C27: after every visit of SCORE the last entry of the attempt log carries
\* the number of batch items the visit appended to the qualifying collection
\* as qualifying_added, so every entry SCORE has run on has all four fields
\* (in the log, -1 stands for an entry without qualifying_added).
C27_LastEntryAnnotated ==
    /\ [][(pc = "score_batch" /\ phase1_tried_pairs # <<>>)
            => phase1_tried_pairs'[Len(phase1_tried_pairs')].qualifying_added
                  = Len(qualifying_jobs') - Len(qualifying_jobs)]_vars
    /\ [](pc # "score_batch"
            => \A i \in 1..Len(phase1_tried_pairs) :
                   phase1_tried_pairs[i].qualifying_added >= 0)

\* the response text has no entry for batch item i that carries a score
\* which reads as a number: there is no entry with its index, or every such
\* entry has a missing, null or non-numeric score
NoUsableScore(text, i) ==
    \/ text.kind # "array"
    \/ \A k \in 1..Len(text.items) :
          text.items[k].idx = IntVal(i - 1) => ~IntOf(text.items[k].score).ok

\* C28: in SCORE every batch item for which the response has no entry, or an
\* entry whose score is missing or unparseable, gets score 70 and is not
\* added to the qualifying collection; this includes the empty response.
C28_DefaultScore ==
    fnCall.fn = "score_batch_node"
    => \A i \in 1..Len(fnCall.batch) :
          NoUsableScore(fnCall.text, i)
          => /\ fnCall.scores[i] = DefaultScore
             /\ \A k \in 1..Len(fnCall.added) :
                   fnCall.added[k].url # fnCall.batch[i].url

\* C29: SCORE makes exactly one gateway invocation for a non-empty fetched
\* batch, whatever its size, and none for an empty batch; it never makes one
\* invocation per item.  No other node adds to the invocations of SCORE.
C29_OneInvocationPerBatch ==
    [][ gatewayCalls'["score_batch"] =
            gatewayCalls["score_batch"]
            + (IF pc = "score_batch" /\ current_batch # <<>> THEN 1 ELSE 0) ]_vars

\* SCORE has run on a batch of max_jobs items and on an empty batch, and has
\* invoked the gateway once
C29_Witness ==
    /\ pc # "score_batch"
    /\ gatewayCalls["score_batch"] = 1
    /\ \E i \in 1..Len(phase1_tried_pairs) :
          phase1_tried_pairs[i].jobs_returned = max_jobs
    /\ \E i \in 1..Len(phase1_tried_pairs) :
          phase1_tried_pairs[i].jobs_returned = 0

\* the position in callStarts of the last outbound call of thread t, 0 when
\* it is no longer among them
LastStart(t) ==
    LET S == {i \in 1..Len(callStarts) : callStarts[i].thread = t}
    IN  IF S = {} THEN 0 ELSE CHOOSE i \in S : \A j \in S : i >= j

\* C30: within one gateway invocation the first and the second attempt use the
\* primary model tier and every attempt made after the second failed attempt
\* uses the fallback tier; a fresh invocation starts on the primary tier again.
\* While an outbound call of the gateway is in flight its tier is the fallback
\* tier exactly when two attempts of the same invocation have failed before.
C30_TierByAttempt ==
    \A t \in DOMAIN gpc :
        (gpc[t] = "call" /\ gkind[t] = "gateway" /\ LastStart(t) # 0)
        => get_model_name(callStarts[LastStart(t)].fallback)
              = (IF Len(outcomes[t]) >= 2 THEN FALLBACK_MODEL ELSE PRIMARY_MODEL)

\* the first call of a fresh invocation is in flight on the primary tier, and
\* the call before it was the third attempt of the previous invocation, on
\* the fallback tier
C30_Witness ==
    /\ gpc["t1"] = "call"
    /\ gkind["t1"] = "gateway"
    /\ outcomes["t1"] = <<>>
    /\ Len(callStarts) = 2
    /\ callStarts[1].thread = "t1"
    /\ callStarts[1].kind = "gateway"
    /\ callStarts[1].fallback
    /\ ~callStarts[2].fallback

\* C31: the gateway makes another attempt only after a quota / rate-limit
\* failure; after a non-retryable failure it makes no further outbound call
\* in that invocation and returns the empty string.  So every outcome of an
\* invocation that is followed by a further outcome is a "429" failure, and
\* an invocation that ended after a non-retryable failure returned "".
C31_RetryOnlyAfter429 ==
    \A t \in DOMAIN gpc :
        gkind[t] = "gateway"
        => /\ \A i \in 1..(Len(outcomes[t]) - 1) : outcomes[t][i] = "429"
           /\ (gpc[t] = "done" /\ outcomes[t] # <<>>
                 /\ outcomes[t][Len(outcomes[t])] = "error")
              => ret[t] = <<"">>

\* C32: every entry of the attempt log has a title that is one of the
\* suggested titles and a page in 0..max_page_per_title, whatever pair the
\* model requests in its tool call.
C32_LogWithinCanon ==
    \A i \in 1..Len(phase1_tried_pairs) :
        /\ phase1_tried_pairs[i].title \in Range(suggested_titles)
        /\ phase1_tried_pairs[i].page \in 0..max_page_per_title

\* C33: the jobs_returned value appended to the attempt log by a search
\* step equals the number of listings the search returned for that call
\* (the whole page of the catalog, or 0 when the search failed).
C33_ToolStepEntered == pc = "phase1_tools" /\ pc' = "score_batch"

C33_Returned ==
    LET e == phase1_tried_pairs'[Len(phase1_tried_pairs')] IN
    IF oddLeft' = oddLeft THEN Len(Catalog(e.title, e.page)) ELSE 0

C33_JobsReturnedIsServiceCount ==
    [][ (C33_ToolStepEntered
          => phase1_tried_pairs'[Len(phase1_tried_pairs')].jobs_returned
               = C33_Returned) ]_vars

\* C34: when the search fails for an attempt the run does not raise: the
\* attempt yields an empty batch, is appended to the attempt log with 0
\* listings, the seen URLs and the qualifying jobs are unchanged, and the
\* scoring node, given the empty batch, hands control back to the agent
\* with both collections still unchanged.
C34_SearchFailed == pc = "phase1_tools" /\ oddLeft' = oddLeft - 1

C34_FailedAttemptLogged ==
    LET pair == tool_pair(phase1_last_tool_call[1], suggested_titles)
        e == phase1_tried_pairs'[Len(phase1_tried_pairs')]
    IN  /\ pc' = "score_batch"
        /\ current_batch' = <<>>
        /\ Len(phase1_tried_pairs') = Len(phase1_tried_pairs) + 1
        /\ SubSeq(phase1_tried_pairs', 1, Len(phase1_tried_pairs))
             = phase1_tried_pairs
        /\ e.title = pair[1] /\ e.page = pair[2] /\ e.jobs_returned = 0
        /\ seen_urls' = seen_urls
        /\ qualifying_jobs' = qualifying_jobs

C34_EmptyBatchBackToAgent ==
    (pc = "score_batch" /\ current_batch = <<>>)
      => /\ pc' = "phase1_agent"
         /\ seen_urls' = seen_urls
         /\ qualifying_jobs' = qualifying_jobs
         /\ phase1_tried_pairs' = phase1_tried_pairs

C34_SearchFailureAbsorbed ==
    [][ (/\ C34_SearchFailed => C34_FailedAttemptLogged
         /\ C34_EmptyBatchBackToAgent) ]_vars

\* a failed first attempt for a page that has listings, after which the
\* agent has chosen another, untried pair
C34_Witness ==
    /\ pc = "phase1_tools"
    /\ Len(phase1_tried_pairs) = 1
    /\ phase1_tried_pairs[1].jobs_returned = 0
    /\ Catalog(phase1_tried_pairs[1].title, phase1_tried_pairs[1].page) # <<>>
    /\ seen_urls = <<>>
    /\ oddLeft = 0
    /\ phase1_last_tool_call # <<>>
    /\ LET pair == tool_pair(phase1_last_tool_call[1], suggested_titles) IN
       <<phase1_tried_pairs[1].title, phase1_tried_pairs[1].page>> # pair

\* C35: update_relevant_jobs is called at most once in a run, exactly once
\* in a run that has ended, and only at the end: once it has been called,
\* every enrichment pass, the relevance summary included, has finished.
C35_ReportOnceAtEnd ==
    /\ reportCalls <= 1
    /\ pc = "END" => reportCalls = 1
    /\ reportCalls > 0 => pc = "END"

\* C36: with one thread making all the outbound calls (gateway attempts and
\* the agent node's direct call alike), a call starts only when at least
\* COOLDOWN_SECONDS have passed since the recorded start of the previous
\* call, its own start is recorded in _last_call_ts before the call is made,
\* and so two consecutive call starts are at least COOLDOWN_SECONDS apart.
C36_StartRecorded ==
    \A t \in DOMAIN gpc :
        gpc[t] = "call"
        => /\ callStarts # <<>>
           /\ callStarts[Len(callStarts)].thread = t
           /\ callStarts[Len(callStarts)].at = last_call_ts

C36_StartsApart ==
    \A i \in 1..(Len(callStarts) - 1) :
        callStarts[i + 1].at >= callStarts[i].at + COOLDOWN_SECONDS

C36_StartWaited ==
    \A t \in DOMAIN gpc :
        (gpc[t] = "stamp" /\ gpc'[t] = "call")
        => /\ now >= last_call_ts + COOLDOWN_SECONDS
           /\ last_call_ts' = now

C36_SoloCooldown ==
    /\ [](C36_StartRecorded /\ C36_StartsApart)
    /\ [][C36_StartWaited]_vars

\* a direct call in flight that started exactly one cooldown after a
\* gateway attempt, or the other way round
C36_Witness ==
    /\ Len(callStarts) = 2
    /\ callStarts[1].kind # callStarts[2].kind
    /\ callStarts[2].at = callStarts[1].at + COOLDOWN_SECONDS
    /\ gpc["t1"] = "call"
    /\ last_call_ts = callStarts[2].at

\* C37: the round counter stays within 0..V3_PHASE1_MAX_ROUNDS, and neither
\* the search node nor the scoring node is entered once it has reached
\* V3_PHASE1_MAX_ROUNDS, whatever the agent has just asked for.
C37_RoundsCapped ==
    /\ phase1_rounds \in 0..V3_PHASE1_MAX_ROUNDS
    /\ pc \in {"phase1_tools", "score_batch"}
         => phase1_rounds < V3_PHASE1_MAX_ROUNDS

\* the agent asked for one more search after the last round and the run
\* went on to the enrichment
C37_Witness ==
    /\ phase1_rounds = V3_PHASE1_MAX_ROUNDS
    /\ phase1_last_tool_call # <<>>
    /\ agentOutcome = "call"
    /\ pc = "resume_modifier_agent"

\* C38: the qualifying collection never holds more than 19 jobs (one less
\* than the target plus one full page): the search node and the scoring
\* node are entered only with fewer than V3_TARGET_QUALIFYING_JOBS
\* qualifying jobs, and a fetched batch has at most max_jobs listings.
C38_QualifyingAtMost19 ==
    /\ Len(qualifying_jobs) <= V3_TARGET_QUALIFYING_JOBS - 1 + max_jobs
    /\ Len(current_batch) <= max_jobs
    /\ pc \in {"phase1_tools", "score_batch"}
         => Len(qualifying_jobs) < V3_TARGET_QUALIFYING_JOBS

\* a full page, all of it qualifying, scored on top of nine qualifying jobs
C38_Witness ==
    /\ Len(qualifying_jobs) = V3_TARGET_QUALIFYING_JOBS - 1 + max_jobs
    /\ phase1_tried_pairs # <<>>
    /\ phase1_tried_pairs[Len(phase1_tried_pairs)].jobs_returned = max_jobs
    /\ phase1_tried_pairs[Len(phase1_tried_pairs)].qualifying_added = max_jobs

\* C39: a listing the search returns with an empty or missing URL is never
\* placed in the fresh batch, so it is never scored, never among the
\* qualifying jobs or the seen URLs, and the jobs_returned of the attempt
\* counts at most the listings of the page that have a URL.
C39_WithUrl(page) == SelectSeq(page, LAMBDA j : j.url # 0)

C39_NoEmptyUrlKept ==
    /\ \A i \in 1..Len(current_batch) : current_batch[i].url # 0
    /\ \A i \in 1..Len(qualifying_jobs) : qualifying_jobs[i].url # 0
    /\ \A i \in 1..Len(seen_urls) : seen_urls[i] # 0

C39_NotCounted ==
    (pc = "phase1_tools" /\ pc' = "score_batch")
      => LET e == phase1_tried_pairs'[Len(phase1_tried_pairs')]
             page == IF oddLeft' = oddLeft THEN Catalog(e.title, e.page) ELSE <<>>
         IN  /\ e.jobs_returned <= Len(C39_WithUrl(page))
             /\ e.jobs_returned = Len(current_batch')

C39_EmptyUrlDropped ==
    /\ []C39_NoEmptyUrlKept
    /\ [][C39_NotCounted]_vars

\* a page holding a listing without URL has been searched and its other
\* listings are in the fresh batch
C39_Witness ==
    /\ pc = "score_batch"
    /\ current_batch # <<>>
    /\ phase1_tried_pairs # <<>>
    /\ LET e == phase1_tried_pairs[Len(phase1_tried_pairs)] IN
       /\ \E i \in 1..Len(Catalog(e.title, e.page)) :
             Catalog(e.title, e.page)[i].url = 0
       /\ e.jobs_returned = Len(current_batch)

=============================================================================
